---- MODULE Spec2Model ----
(***************************************************************************)
(* rahzom: bidirectional folder synchronisation.                           *)
(* The differ (sync/differ.rs), the metadata store (sync/metadata.rs),     *)
(* the executor (sync/executor.rs), the scanner (sync/scanner.rs) and the   *)
(* sync cycle of the application (app/mod.rs), as state machines.          *)
(*                                                                         *)
(* Paths are sequences of component names; timestamps are milliseconds.    *)
(***************************************************************************)
EXTENDS Integers, Sequences, FiniteSets, TLC

VARIABLES
    left_scan,    \* ScanResult.entries of the left side: path -> FileEntry or NoEntry
    right_scan,   \* ScanResult.entries of the right side
    left_meta,    \* SyncMetadata of the left side  [files, deleted, last_sync]
    right_meta,   \* SyncMetadata of the right side
    plan,         \* DiffResult.actions of the last diff call
    plan2,        \* DiffResult.actions of a second diff call on the same inputs
    pc,           \* position of the caller
    store,        \* a SyncMetadata under upsert_file and mark_deleted
    store_before, \* store before the last call
    last_call,    \* the last call on store: [op, path]
    left_tree,    \* the files and directories under the left root: path -> entry
    right_tree,   \* the files and directories under the right root
    left_rahzom,  \* .rahzom of the left root: [backup, trash]
    right_rahzom, \* .rahzom of the right root
    now,          \* the clock, Utc::now() and the time stamps the file system gives
    windows,      \* the build: cfg(windows) or cfg(not(windows))
    screen,       \* App.screen
    dialog,       \* App.dialog
    syncing,      \* App.syncing: SyncingState or none
    sync_complete, \* App.sync_complete: SyncCompleteState or none
    cycles,       \* sync cycles so far: [started, saved]
    call,         \* a call of Executor::execute: its arguments, locals and result
    progress,     \* the calls the ProgressCallback of that call has received
    links,        \* the paths under the scanned root that are symbolic links
    exclusions,   \* the exclusion patterns of a scan: the names they match
    scanned,      \* the ScanResult of scan_with_exclusions: [entries, skipped] or none
    retention,    \* the retention_days argument of load_with_retention
    state_json,   \* .rahzom/state.json of each side: absent, valid or corrupt
    rahzomignore  \* .rahzomignore of each side: [exists, patterns, invalid]

vars == <<left_scan, right_scan, left_meta, right_meta, plan, plan2, pc,
          store, store_before, last_call,
          left_tree, right_tree, left_rahzom, right_rahzom, now, windows,
          screen, dialog, syncing, sync_complete, cycles,
          call, progress, links, exclusions, scanned, retention,
          state_json, rahzomignore>>

diffVars == <<left_scan, right_scan, left_meta, right_meta, plan, plan2, pc>>
storeVars == <<store, store_before, last_call>>
execVars == <<call, progress>>
scanVars == <<links, exclusions, scanned>>
loadVars == <<retention, state_json, rahzomignore>>
libVars == <<execVars, scanVars, loadVars>>
treeVars == <<left_tree, right_tree, left_rahzom, right_rahzom>>
appVars == <<screen, dialog, syncing, sync_complete, cycles>>
cycleVars == <<left_tree, right_tree, left_rahzom, right_rahzom, now, windows,
               screen, dialog, syncing, sync_complete, cycles>>

-----------------------------------------------------------------------------
(* Bounds of the model *)

MaxSize == 1
MaxMeta == 1

Sizes == 0..MaxSize

\* 0 s, 2.5 s and 3 s: differences inside and outside the tolerance
Times == {0, 2500, 3000}

\* the path whose entries take every attribute value
RichPath == <<"a">>

\* "a" and "A" collide case-insensitively; "a/b" lies one level deeper
CasePaths == {<<"a">>, <<"A">>, <<"a", "b">>}

\* "c" collides with none of them
Paths == CasePaths \cup {<<"c">>}

-----------------------------------------------------------------------------
(* Values *)

NoHash == "none"

NoEntry == [present |-> FALSE, is_dir |-> FALSE, size |-> 0, mtime |-> 0, hash |-> NoHash]

FileEntryOf(s, t, h) == [present |-> TRUE, is_dir |-> FALSE, size |-> s, mtime |-> t, hash |-> h]

\* scanner.rs process_entry: a directory is scanned with size 0
DirEntryOf(t) == [present |-> TRUE, is_dir |-> TRUE, size |-> 0, mtime |-> t, hash |-> NoHash]

NoInfo == [some |-> FALSE, size |-> 0, mtime |-> 0, hash |-> NoHash]

FileInfo(e) == [some |-> TRUE, size |-> e.size, mtime |-> e.mtime, hash |-> e.hash]

FileState(p, s, t, h) == [path |-> p, size |-> s, mtime |-> t, hash |-> h]

DeletedFile(p, s, t, d) == [path |-> p, size |-> s, mtime |-> t, hash |-> NoHash, deleted_at |-> d]

NoTime == -1

EmptyMeta == [files |-> <<>>, deleted |-> <<>>, last_sync |-> NoTime]

FAT32_TOLERANCE_SECS == 2

-----------------------------------------------------------------------------
(* Strings and paths *)

\* str::to_lowercase on one component name
LowerName(n) == CASE n = "A" -> "a"
                  [] n = "B" -> "b"
                  [] OTHER -> n

to_lowercase(p) == [i \in 1..Len(p) |-> LowerName(p[i])]

\* Path::components().count()
Depth(p) == Len(p)

Abs(x) == IF x < 0 THEN -x ELSE x

\* chrono Duration::num_seconds: whole seconds, truncated towards zero
num_seconds(ms) == IF ms >= 0 THEN ms \div 1000 ELSE -((-ms) \div 1000)

RECURSIVE SeqOfSet(_)
SeqOfSet(S) == IF S = {} THEN <<>>
               ELSE LET x == CHOOSE y \in S : TRUE IN <<x>> \o SeqOfSet(S \ {x})

\* every order in which a HashMap or HashSet may yield the elements of S
Perms(S) == {s \in [1..Cardinality(S) -> S] : \A i, j \in 1..Cardinality(S) : i # j => s[i] # s[j]}

Range(s) == {s[i] : i \in 1..Len(s)}

-----------------------------------------------------------------------------
(* sync/metadata.rs *)

RECURSIVE FirstWithPath(_, _, _)
FirstWithPath(s, p, none) == IF s = <<>> THEN none
                             ELSE IF Head(s).path = p THEN Head(s)
                             ELSE FirstWithPath(Tail(s), p, none)

NoState == [path |-> <<>>, size |-> 0, mtime |-> 0, hash |-> NoHash]

find_file(meta, p) == FirstWithPath(meta.files, p, NoState)

has_file(meta, p) == \E i \in 1..Len(meta.files) : meta.files[i].path = p

find_deleted(meta, p) == \E i \in 1..Len(meta.deleted) : meta.deleted[i].path = p

RetainOther(s, p) == LET Keep(x) == x.path # p IN SelectSeq(s, Keep)

\* mark_deleted, without the removal from the files list
mark_deleted_keeps_state(meta, file) ==
    [meta EXCEPT !.deleted = Append(RetainOther(meta.deleted, file.path), file)]

mark_deleted(meta, file) ==
    [meta EXCEPT !.files = RetainOther(meta.files, file.path),
                 !.deleted = Append(RetainOther(meta.deleted, file.path), file)]

upsert_file(meta, file) ==
    LET deleted == RetainOther(meta.deleted, file.path)
        hit == {i \in 1..Len(meta.files) : meta.files[i].path = file.path}
    IN IF hit # {}
       THEN LET first == CHOOSE i \in hit : \A j \in hit : i <= j
            IN [meta EXCEPT !.deleted = deleted, !.files = [meta.files EXCEPT ![first] = file]]
       ELSE [meta EXCEPT !.deleted = deleted, !.files = Append(meta.files, file)]

-----------------------------------------------------------------------------
(* sync/differ.rs *)

Action(type, p, size, reason, l, r) ==
    [type |-> type, path |-> p, size |-> size, reason |-> reason, left |-> l, right |-> r]

CopyToRight(p, size) == Action("CopyToRight", p, size, "", NoInfo, NoInfo)
CopyToLeft(p, size) == Action("CopyToLeft", p, size, "", NoInfo, NoInfo)
DeleteRight(p) == Action("DeleteRight", p, 0, "", NoInfo, NoInfo)
DeleteLeft(p) == Action("DeleteLeft", p, 0, "", NoInfo, NoInfo)
CreateDirRight(p) == Action("CreateDirRight", p, 0, "", NoInfo, NoInfo)
CreateDirLeft(p) == Action("CreateDirLeft", p, 0, "", NoInfo, NoInfo)
Conflict(p, reason, l, r) == Action("Conflict", p, 0, reason, l, r)
Skip(p, reason) == Action("Skip", p, 0, reason, NoInfo, NoInfo)

IsCreateDir(a) == a.type \in {"CreateDirLeft", "CreateDirRight"}
IsCopy(a) == a.type \in {"CopyToLeft", "CopyToRight"}
IsDelete(a) == a.type \in {"DeleteLeft", "DeleteRight"}

\* Checks if two files are equal (considering FAT32 time tolerance)
files_equal_exact_mtime(a, b) ==
    IF a.size # b.size THEN FALSE
    ELSE IF a.mtime # b.mtime THEN FALSE
    ELSE IF a.hash # NoHash /\ b.hash # NoHash THEN a.hash = b.hash
    ELSE TRUE

files_equal(a, b) ==
    IF a.size # b.size THEN FALSE
    ELSE IF Abs(num_seconds(a.mtime - b.mtime)) > FAT32_TOLERANCE_SECS THEN FALSE
    ELSE IF a.hash # NoHash /\ b.hash # NoHash THEN a.hash = b.hash
    ELSE TRUE

\* Checks if a file has changed since the recorded state
file_changed_since(current, prev) ==
    IF current.size # prev.size THEN TRUE
    ELSE IF Abs(num_seconds(current.mtime - prev.mtime)) > FAT32_TOLERANCE_SECS THEN TRUE
    ELSE IF current.hash # NoHash /\ prev.hash # NoHash /\ current.hash # prev.hash THEN TRUE
    ELSE FALSE

\* changed, with a missing prior FileState taken as unchanged
changed_prior_required(entry, has_prev, prev) == has_prev /\ file_changed_since(entry, prev)

\* left_prev.is_none() || file_changed_since(l, left_prev.unwrap())
changed(entry, has_prev, prev) == ~has_prev \/ file_changed_since(entry, prev)

\* both_sides, with the two copy directions exchanged
both_sides_swapped(path, l, r, left_changed, right_changed) ==
    IF l.is_dir /\ r.is_dir THEN Skip(path, "Directory exists on both sides")
    ELSE IF files_equal(l, r) THEN Skip(path, "Files are identical")
    ELSE IF left_changed /\ right_changed
        THEN Conflict(path, "BothModified", FileInfo(l), FileInfo(r))
    ELSE IF left_changed THEN CopyToLeft(path, r.size)
    ELSE IF right_changed THEN CopyToRight(path, l.size)
    ELSE Skip(path, "No changes detected")

\* determine_action, (Some(l), Some(r)): the path exists on both sides
both_sides(path, l, r, left_changed, right_changed) ==
    IF l.is_dir /\ r.is_dir THEN Skip(path, "Directory exists on both sides")
    ELSE IF files_equal(l, r) THEN Skip(path, "Files are identical")
    ELSE IF left_changed /\ right_changed
        THEN Conflict(path, "BothModified", FileInfo(l), FileInfo(r))
    ELSE IF left_changed THEN CopyToRight(path, l.size)
    ELSE IF right_changed THEN CopyToLeft(path, r.size)
    ELSE Skip(path, "No changes detected")

\* only_left, with a new file copied in the wrong direction
only_left_copies_back(path, l, left_changed, has_rp, right_deleted) ==
    IF l.is_dir THEN CreateDirRight(path)
    ELSE IF right_deleted THEN Conflict(path, "ExistsVsDeleted", FileInfo(l), NoInfo)
    ELSE IF has_rp THEN
        IF left_changed THEN Conflict(path, "ModifiedAndDeleted", FileInfo(l), NoInfo)
        ELSE DeleteLeft(path)
    ELSE CopyToLeft(path, l.size)

\* only_left, with the delete issued for the side that has no file
only_left_deletes_right(path, l, left_changed, has_rp, right_deleted) ==
    IF l.is_dir THEN CreateDirRight(path)
    ELSE IF right_deleted THEN Conflict(path, "ExistsVsDeleted", FileInfo(l), NoInfo)
    ELSE IF has_rp THEN
        IF left_changed THEN Conflict(path, "ModifiedAndDeleted", FileInfo(l), NoInfo)
        ELSE DeleteRight(path)
    ELSE CopyToRight(path, l.size)

\* determine_action, (Some(l), None): the path exists on the left only
only_left(path, l, left_changed, has_rp, right_deleted) ==
    IF l.is_dir THEN CreateDirRight(path)
    ELSE IF right_deleted THEN Conflict(path, "ExistsVsDeleted", FileInfo(l), NoInfo)
    ELSE IF has_rp THEN
        IF left_changed THEN Conflict(path, "ModifiedAndDeleted", FileInfo(l), NoInfo)
        ELSE DeleteLeft(path)
    ELSE CopyToRight(path, l.size)

\* only_right, with the deletion propagated although the file was modified
only_right_deletes_modified(path, r, right_changed, has_lp, left_deleted) ==
    IF r.is_dir THEN CreateDirLeft(path)
    ELSE IF left_deleted THEN Conflict(path, "ExistsVsDeleted", NoInfo, FileInfo(r))
    ELSE IF has_lp THEN DeleteRight(path)
    ELSE CopyToLeft(path, r.size)

\* determine_action, (None, Some(r)): the path exists on the right only
only_right(path, r, right_changed, has_lp, left_deleted) ==
    IF r.is_dir THEN CreateDirLeft(path)
    ELSE IF left_deleted THEN Conflict(path, "ExistsVsDeleted", NoInfo, FileInfo(r))
    ELSE IF has_lp THEN
        IF right_changed THEN Conflict(path, "ModifiedAndDeleted", NoInfo, FileInfo(r))
        ELSE DeleteRight(path)
    ELSE CopyToLeft(path, r.size)

\* Determines what action to take for a specific path.  has_lp, has_rp say
\* whether left_prev, right_prev are Some.
determine_action(path, l, r, has_lp, left_prev, has_rp, right_prev, right_deleted, left_deleted) ==
    IF l.present /\ r.present
        THEN both_sides(path, l, r, changed(l, has_lp, left_prev), changed(r, has_rp, right_prev))
    ELSE IF l.present
        THEN only_left(path, l, changed(l, has_lp, left_prev), has_rp, right_deleted)
    ELSE IF r.present
        THEN only_right(path, r, changed(r, has_rp, right_prev), has_lp, left_deleted)
    ELSE Skip(path, "File not found on either side")

\* the keys of the lookup map built from a scan
Keys(scan) == {p \in DOMAIN scan : scan[p].present}

\* Detects paths that differ only in case, within a side or between the sides
detect_case_conflicts(ls, rs) ==
    LET by_case(scan, n) == {p \in Keys(scan) : to_lowercase(p) = n}
        within(scan) == {p \in Keys(scan) : Cardinality(by_case(scan, to_lowercase(p))) > 1}
        between == {lp \in Keys(ls) : \E rp \in by_case(rs, to_lowercase(lp)) : lp # rp}
    IN within(ls) \cup within(rs) \cup between

\* case_conflicts.iter().any(|p| p.to_lowercase() == path.to_lowercase())
is_case_conflict(cc, path) == \E p \in cc : to_lowercase(p) = to_lowercase(path)

\* the Conflict actions the first loop of diff may emit for a path of case_conflicts:
\* the right entry is the first one the map yields with another case, or the
\* entry of the path itself
case_conflict_actions(ls, rs, path) ==
    LET l == IF ls[path].present THEN FileInfo(ls[path]) ELSE NoInfo
        others == {p \in Keys(rs) : to_lowercase(p) = to_lowercase(path) /\ p # path}
    IN IF others # {}
       THEN {Conflict(path, "CaseConflict", l, FileInfo(rs[p])) : p \in others}
       ELSE {Conflict(path, "CaseConflict", l, IF rs[path].present THEN FileInfo(rs[path]) ELSE NoInfo)}

\* left_action, with the tombstone looked up on the file's own side
left_action_own_tombstone(ls, rs, lm, rm, path) ==
    determine_action(path, ls[path], rs[path], has_file(lm, path), find_file(lm, path),
                     has_file(rm, path), find_file(rm, path), find_deleted(lm, path), FALSE)

left_action(ls, rs, lm, rm, path) ==
    determine_action(path, ls[path], rs[path], has_file(lm, path), find_file(lm, path),
                     has_file(rm, path), find_file(rm, path), find_deleted(rm, path), FALSE)

\* right_action, with the tombstone of the left side never looked up
right_action_ignores_tombstone(ls, rs, lm, rm, path) ==
    determine_action(path, NoEntry, rs[path], has_file(lm, path), find_file(lm, path),
                     has_file(rm, path), find_file(rm, path), FALSE, FALSE)

right_action(ls, rs, lm, rm, path) ==
    determine_action(path, NoEntry, rs[path], has_file(lm, path), find_file(lm, path),
                     has_file(rm, path), find_file(rm, path), FALSE, find_deleted(lm, path))

\* sort_dirs_first that keeps the directory creations only
sort_dirs_first_keeps_dirs_only(actions) == SelectSeq(actions, IsCreateDir)

\* result.actions.sort_by(|a, b| b_is_dir.cmp(&a_is_dir)): a stable sort that
\* moves the directory creations to the front and keeps every other order
sort_dirs_first(actions) ==
    LET NotCreateDir(a) == ~IsCreateDir(a)
    IN SelectSeq(actions, IsCreateDir) \o SelectSeq(actions, NotCreateDir)

\* every action sequence diff may return: the three loops run over hash
\* collections, whose iteration order is not fixed
diff(ls, rs, lm, rm) ==
    LET cc == detect_case_conflicts(ls, rs)
        left_todo == {p \in Keys(ls) : ~is_case_conflict(cc, p)}
        right_todo == {p \in Keys(rs) : p \notin Keys(ls) /\ ~is_case_conflict(cc, p)}
        cc_choices == {f \in [cc -> UNION {case_conflict_actions(ls, rs, p) : p \in cc}] :
                          \A p \in cc : f[p] \in case_conflict_actions(ls, rs, p)}
    IN {sort_dirs_first(
            [i \in 1..Len(co) |-> ch[co[i]]]
            \o [i \in 1..Len(lo) |-> left_action(ls, rs, lm, rm, lo[i])]
            \o [i \in 1..Len(ro) |-> right_action(ls, rs, lm, rm, ro[i])]) :
          co \in Perms(cc), ch \in cc_choices, lo \in Perms(left_todo), ro \in Perms(right_todo)}


-----------------------------------------------------------------------------
(* Inputs of diff *)

PathSeq == <<(<<"a">>), (<<"A">>), (<<"a", "b">>), (<<"c">>)>>

EmptyScan == [p \in Paths |-> NoEntry]

\* what a metadata store holds for one path.  The two mutators keep a path
\* out of one of the two lists, so a path has one record at most.
NoRecord == [kind |-> "none", size |-> 0, mtime |-> 0]
Tombstone == [kind |-> "tomb", size |-> 0, mtime |-> 0]
StateRecord(s, t) == [kind |-> "file", size |-> s, mtime |-> t]

\* the metadata store that holds f[p] for every path p
MetaOf(f) ==
    LET InFiles(p) == f[p].kind = "file"
        InDeleted(p) == f[p].kind = "tomb"
        fs == SelectSeq(PathSeq, InFiles)
        ds == SelectSeq(PathSeq, InDeleted)
    IN [files |-> [i \in 1..Len(fs) |-> FileState(fs[i], f[fs[i]].size, f[fs[i]].mtime, NoHash)],
        deleted |-> [i \in 1..Len(ds) |-> DeletedFile(ds[i], 0, 0, 0)],
        last_sync |-> NoTime]

\* one path with every attribute value
RichEntries == {NoEntry} \cup {FileEntryOf(s, t, NoHash) : s \in Sizes, t \in Times}
                  \cup {DirEntryOf(t) : t \in Times}

RichScans == {[EmptyScan EXCEPT ![RichPath] = e] : e \in RichEntries}

RichMetas ==
    {MetaOf([p \in Paths |-> IF p = RichPath THEN k ELSE NoRecord]) :
        k \in {NoRecord, Tombstone} \cup {StateRecord(s, t) : s \in Sizes, t \in Times}}

\* the paths "a", "A" and "a/b" with few attribute values; a scan is a tree,
\* so "a/b" is there only below a directory "a"
PlainTimes == {0, 3000}

PlainFiles == {FileEntryOf(1, t, NoHash) : t \in PlainTimes}

PlainScans ==
    {s \in [Paths -> {NoEntry, DirEntryOf(0)} \cup PlainFiles] :
        /\ ~s[<<"c">>].present
        /\ ~s[<<"A">>].is_dir
        /\ s[<<"a", "b">>].present => s[<<"a">>].is_dir
        /\ s[<<"a", "b">>].present => s[<<"a", "b">>].mtime = 0}

PlainMetas ==
    {MetaOf(f) : f \in {g \in [Paths -> {NoRecord, Tombstone, StateRecord(1, 0)}] :
                          /\ g[<<"c">>] = NoRecord
                          /\ Cardinality({p \in Paths : g[p] # NoRecord}) <= MaxMeta}}

\* one path that is a file on both sides, with and without content hashes
Hashes == {NoHash, "h1", "h2"}

HashFiles == {FileEntryOf(1, t, h) : t \in Times, h \in Hashes}

HashScans == {[EmptyScan EXCEPT ![RichPath] = e] : e \in HashFiles}

DiffInputs ==
    \/ /\ left_scan \in HashScans
       /\ right_scan \in HashScans
       /\ left_meta \in RichMetas
       /\ right_meta \in RichMetas
    \/ /\ left_scan \in RichScans
       /\ right_scan \in RichScans
       /\ left_meta \in RichMetas
       /\ right_meta \in RichMetas
    \/ /\ left_scan \in PlainScans
       /\ right_scan \in PlainScans
       /\ left_meta \in PlainMetas
       /\ right_meta \in PlainMetas

-----------------------------------------------------------------------------
(* Values of the application and of the file system *)

EmptyTree == [p \in Paths |-> NoEntry]

\* the backups and the trash of one root: a backup as [name, stamp, size], a
\* file of the trash as [name, stamp]; a backup written under the name of an
\* earlier one replaces it
EmptyRahzom == [backup |-> {}, trash |-> {}]

\* ExecutionResult::default()
EmptyResult == [completed |-> <<>>, failed |-> <<>>, skipped |-> <<>>]

\* App.syncing = None
NoSyncing ==
    [some |-> FALSE, actions |-> <<>>, total_actions |-> 0, completed_actions |-> 0,
     current_index |-> 0, cancel_requested |-> FALSE, snapshots |-> {},
     result |-> EmptyResult]

\* App.sync_complete = None
NoSyncComplete == [some |-> FALSE, completed |-> <<>>, failed |-> <<>>, skipped |-> <<>>]

\* the variables of the sync cycle, where no cycle is modelled
CycleIdle ==
    /\ left_tree = EmptyTree
    /\ right_tree = EmptyTree
    /\ left_rahzom = EmptyRahzom
    /\ right_rahzom = EmptyRahzom
    /\ now = 0
    /\ windows = FALSE
    /\ screen = "ProjectView"
    /\ dialog = "None"
    /\ syncing = NoSyncing
    /\ sync_complete = NoSyncComplete
    /\ cycles = [started |-> 0, saved |-> 0]

-----------------------------------------------------------------------------
(* The differ as a state machine: the inputs are drawn and diff is called;  *)
(* in SpecDiffTwice it is called once more on the same inputs.              *)

NoCall == [op |-> "new", path |-> <<>>]

NoExecCall ==
    [some |-> FALSE, actions |-> <<>>, snapshots |-> {}, sorted |-> <<>>, index |-> 0,
     result |-> EmptyResult, returned |-> FALSE]

NoScanResult == [some |-> FALSE, entries |-> <<>>, skipped |-> {}]

\* a .rahzomignore: whether the file exists, the patterns of its lines, and
\* whether one of its lines is a pattern Glob::new rejects
NoIgnoreFile == [exists |-> FALSE, patterns |-> {}, invalid |-> FALSE]

\* the state.json of both sides can be read, no side has a .rahzomignore
FilesIdle ==
    /\ state_json = [left |-> "valid", right |-> "valid"]
    /\ rahzomignore = [left |-> NoIgnoreFile, right |-> NoIgnoreFile]

LibIdle ==
    /\ call = NoExecCall
    /\ progress = <<>>
    /\ links = {}
    /\ exclusions = {}
    /\ scanned = NoScanResult
    /\ retention = 0
    /\ FilesIdle

StoreIdle ==
    /\ store = EmptyMeta
    /\ store_before = EmptyMeta
    /\ last_call = NoCall

InitDiff ==
    /\ DiffInputs
    /\ plan = <<>>
    /\ plan2 = <<>>
    /\ pc = "start"
    /\ StoreIdle
    /\ LibIdle
    /\ CycleIdle

CallDiff ==
    /\ pc = "start"
    /\ plan' \in diff(left_scan, right_scan, left_meta, right_meta)
    /\ pc' = "planned"
    /\ UNCHANGED <<left_scan, right_scan, left_meta, right_meta, plan2>>
    /\ UNCHANGED <<storeVars, libVars, libVars>>
    /\ UNCHANGED cycleVars

CallDiffAgain ==
    /\ pc = "planned"
    /\ plan2' \in diff(left_scan, right_scan, left_meta, right_meta)
    /\ pc' = "planned twice"
    /\ UNCHANGED <<left_scan, right_scan, left_meta, right_meta, plan>>
    /\ UNCHANGED <<storeVars, libVars, libVars>>
    /\ UNCHANGED cycleVars

SpecDiff == InitDiff /\ [][CallDiff]_vars

NextDiffTwice == CallDiff \/ CallDiffAgain

SpecDiffTwice == InitDiff /\ [][NextDiffTwice]_vars

-----------------------------------------------------------------------------
(* The metadata store as a state machine: SyncMetadata::new, then any       *)
(* sequence of upsert_file and mark_deleted.                                *)

DiffIdle ==
    /\ left_scan = EmptyScan
    /\ right_scan = EmptyScan
    /\ left_meta = EmptyMeta
    /\ right_meta = EmptyMeta
    /\ plan = <<>>
    /\ plan2 = <<>>
    /\ pc = "idle"

InitStore == DiffIdle /\ StoreIdle /\ CycleIdle /\ LibIdle

UpsertFile ==
    \E p \in CasePaths, s \in Sizes, t \in PlainTimes :
        /\ store' = upsert_file(store, FileState(p, s, t, NoHash))
        /\ store_before' = store
        /\ last_call' = [op |-> "upsert_file", path |-> p]
        /\ UNCHANGED <<diffVars, libVars>>
        /\ UNCHANGED cycleVars

MarkDeleted ==
    \E p \in CasePaths, s \in Sizes :
        /\ store' = mark_deleted(store, DeletedFile(p, s, 0, 0))
        /\ store_before' = store
        /\ last_call' = [op |-> "mark_deleted", path |-> p]
        /\ UNCHANGED <<diffVars, libVars>>
        /\ UNCHANGED cycleVars

NextStore == UpsertFile \/ MarkDeleted

SpecStore == InitStore /\ [][NextStore]_vars

-----------------------------------------------------------------------------
(* The file system, as sync/executor.rs uses it *)

Parent(p) == SubSeq(p, 1, Len(p) - 1)

\* the directories between the root and p
Ancestors(p) == {SubSeq(p, 1, k) : k \in 1..(Len(p) - 1)}

IsUnder(q, p) == Len(q) > Len(p) /\ SubSeq(q, 1, Len(p)) = p

\* Path::file_name
file_name(p) == p[Len(p)]

\* root.join(path)
join(root, p) == <<root>> \o p

left_root == "/left"
right_root == "/right"

\* a directory's mtime moves when an entry is added to it or removed from it
touch_parent(tree, p, t) ==
    IF Len(p) > 1 /\ tree[Parent(p)].present /\ tree[Parent(p)].is_dir
        THEN [tree EXCEPT ![Parent(p)].mtime = t]
    ELSE tree

\* fs::create_dir_all below a root: fails where a file is in the way
create_dir_all(tree, p, t) ==
    LET chain == {q \in Ancestors(p) \cup {p} : q # <<>>}
        blocked == \E q \in chain : tree[q].present /\ ~tree[q].is_dir
        made == {q \in chain : ~tree[q].present}
        touched == {Parent(q) : q \in {m \in made : Len(m) > 1}} \ made
    IN IF blocked THEN [ok |-> FALSE, tree |-> tree]
       ELSE [ok |-> TRUE,
             tree |-> [q \in Paths |-> IF q \in made THEN DirEntryOf(t)
                                       ELSE IF q \in touched THEN [tree[q] EXCEPT !.mtime = t]
                                       ELSE tree[q]]]

\* scanner.rs: every file and directory below the root, .rahzom left out,
\* a directory with size 0, no hash
scan_with_exclusions(tree) ==
    [p \in Paths |-> IF ~tree[p].present THEN NoEntry
                     ELSE IF tree[p].is_dir THEN DirEntryOf(tree[p].mtime)
                     ELSE FileEntryOf(tree[p].size, tree[p].mtime, NoHash)]

-----------------------------------------------------------------------------
(* sync/scanner.rs and sync/exclusions.rs: the scan under exclusions *)

SKIP_DIR == ".rahzom"

ScanPaths == Paths \cup {<<SKIP_DIR>>, <<SKIP_DIR, "a">>}

\* a pattern of .rahzomignore: a literal path, or a directory pattern "dir/",
\* which compile_patterns turns into the globs "dir" and "dir/**"
Literal(p) == [base |-> p, dir |-> FALSE]
DirPattern(p) == [base |-> p, dir |-> TRUE]

ExclPatterns == {Literal(<<"A">>), Literal(<<"a", "b">>), DirPattern(<<"a">>)}

\* GlobSet::is_match of the path, or of the path followed by "/"
is_match(excl, p, slash) ==
    \E g \in excl :
        IF g.dir THEN p = g.base \/ (Len(p) > Len(g.base) /\ SubSeq(p, 1, Len(g.base)) = g.base)
        ELSE ~slash /\ p = g.base

is_excluded(excl, p, is_dir) ==
    \/ is_match(excl, p, FALSE)
    \/ is_dir /\ is_match(excl, p, TRUE)
    \/ \E n \in 1..(Len(p) - 1) : is_match(excl, SubSeq(p, 1, n), TRUE)

should_skip(p) == \E i \in 1..Len(p) : p[i] = SKIP_DIR

\* one turn of the loop over WalkDir without the test for symbolic links
visit_follows_links(tree, symlinks, excl, p) ==
    IF should_skip(p) THEN "continue"
    ELSE IF is_excluded(excl, p, tree[p].is_dir) THEN "Excluded by pattern"
    ELSE "entry"

\* one turn of the loop over WalkDir: what becomes of the path
visit(tree, symlinks, excl, p) ==
    IF should_skip(p) THEN "continue"
    ELSE IF is_excluded(excl, p, tree[p].is_dir) THEN "Excluded by pattern"
    ELSE IF p \in symlinks THEN "Symlink (not supported)"
    ELSE "entry"

\* the ScanResult: WalkDir yields every path there is under the root and
\* does not descend into a symbolic link
scan_result(tree, symlinks, excl) ==
    LET met == {p \in DOMAIN tree : tree[p].present}
    IN [some |-> TRUE,
        entries |-> [p \in DOMAIN tree |->
                        IF p \in met /\ visit(tree, symlinks, excl, p) = "entry"
                            THEN IF tree[p].is_dir THEN DirEntryOf(tree[p].mtime)
                                 ELSE FileEntryOf(tree[p].size, tree[p].mtime, NoHash)
                        ELSE NoEntry],
        skipped |-> {[path |-> p, reason |-> visit(tree, symlinks, excl, p)] :
                        p \in {q \in met : visit(tree, symlinks, excl, q) \notin {"continue", "entry"}}}]

\* Exclusions::load of a .rahzomignore: the patterns, or an error when a line
\* is not a glob; a file that does not exist gives the empty exclusions
Exclusions_load(file) ==
    IF ~file.exists THEN [ok |-> TRUE, patterns |-> {}]
    ELSE IF file.invalid THEN [ok |-> FALSE, patterns |-> {}]
    ELSE [ok |-> TRUE, patterns |-> file.patterns]

\* scan_with_exclusions(root, exclusions) of run_analyze, the exclusions being
\* Exclusions::load(root).ok(): None when the load failed
scan_with_loaded_exclusions(tree, file) ==
    LET loaded == Exclusions_load(file)
    IN IF loaded.ok THEN scan_result(tree, {}, loaded.patterns).entries
       ELSE scan_with_exclusions(tree)

-----------------------------------------------------------------------------
(* sync/metadata.rs: loading *)

DEFAULT_DELETED_RETENTION_DAYS == 90

MsPerDay == 86400000

cleanup_deleted_keeps_all(meta, retention_days, t) == meta

\* self.deleted.retain(|d| d.deleted_at > Utc::now() - Duration::days(retention_days))
\* d.deleted_at > t - retention_days * MsPerDay, without the product
cleanup_deleted(meta, retention_days, t) ==
    LET Recent(d) == (t - d.deleted_at) \div MsPerDay < retention_days
    IN [meta EXCEPT !.deleted = SelectSeq(meta.deleted, Recent)]

load_with_retention(meta, retention_days, t) == cleanup_deleted(meta, retention_days, t)

\* SyncMetadata::load of a state.json that holds meta
load(meta, t) == load_with_retention(meta, DEFAULT_DELETED_RETENTION_DAYS, t)

\* SyncMetadata::load of a side: Ok(SyncMetadata::new()) when there is no
\* state.json, Err when the file cannot be opened or parsed
load_state_json(status, meta, t) ==
    IF status = "absent" THEN [ok |-> TRUE, meta |-> EmptyMeta]
    ELSE IF status = "corrupt" THEN [ok |-> FALSE, meta |-> EmptyMeta]
    ELSE [ok |-> TRUE, meta |-> load(meta, t)]

\* Result::unwrap_or_default of a loaded SyncMetadata
unwrap_or_default(loaded) == IF loaded.ok THEN loaded.meta ELSE EmptyMeta

-----------------------------------------------------------------------------
(* sync/executor.rs *)

\* ExecutorConfig::default()
backup_enabled == TRUE
backup_versions == 5
soft_delete == TRUE

\* the outcome of one action: what execute records, and the destination
\* tree and .rahzom as the action leaves them
Outcome(status, kind, reason, tree, dot) ==
    [status |-> status, kind |-> kind, reason |-> reason, tree |-> tree, dot |-> dot]

\* SyncErrorKind::is_recoverable
is_recoverable(kind) == kind \in {"FileLocked", "DiskFull"}

\* the io::Error of an operation that meets a directory where it needs a
\* file, as classify_io_error sees it on the two platforms
dir_as_file_kind(win, unix_kind) == IF win THEN "PermissionDenied" ELSE unix_kind

\* cfg(windows): SetFileTime; cfg(not(windows)): nothing is set
set_file_mtime(win, entry, mtime) == IF win THEN [entry EXCEPT !.mtime = mtime] ELSE entry

verify_file(entry, snapshot) ==
    IF ~entry.present THEN FALSE
    ELSE IF entry.size # snapshot.size THEN FALSE
    ELSE IF Abs(num_seconds(entry.mtime - snapshot.mtime)) > FAT32_TOLERANCE_SECS THEN FALSE
    ELSE TRUE

rotate_backups_keeps_all(backup, filename) == backup

\* a character of a file name; the digits of a timestamp are one token
Ch(c) == [ch |-> c, num |-> 0]
Stamp(t) == [ch |-> "0", num |-> t]

\* the characters of a file name of the model: every name is one letter,
\* but "b.x"
Chars(n) == IF n = "b.x" THEN <<Ch("b"), Ch("."), Ch("x")>> ELSE <<Ch(n)>>

\* the place of a character in the order of its code: '.', the digits, the
\* capitals, the small letters
CharRank(c) ==
    CASE c = "." -> 0
      [] c = "0" -> 1
      [] c = "A" -> 2
      [] c = "a" -> 3
      [] c = "b" -> 4
      [] c = "c" -> 5
      [] OTHER -> 6

\* format!("{}.{}", filename, timestamp): the name of a backup in _backup;
\* the timestamp has a fixed width, so two of them compare as their times do
backup_name(b) == Chars(b.name) \o <<Ch("."), Stamp(b.stamp)>>

\* str::starts_with
starts_with(s, prefix) ==
    Len(s) >= Len(prefix) /\ SubSeq(s, 1, Len(prefix)) = prefix

\* Ord of two file names: the first character that differs decides, a
\* proper prefix is the smaller
NameLess(x, y) ==
    \E k \in 1..(Len(y)) :
        /\ k <= Len(x) + 1
        /\ SubSeq(x, 1, k - 1) = SubSeq(y, 1, k - 1)
        /\ \/ k = Len(x) + 1
           \/ CharRank(x[k].ch) < CharRank(y[k].ch)
           \/ x[k].ch = y[k].ch /\ x[k].num < y[k].num

\* every entry of _backup whose name starts with "filename." is listed, the
\* list is sorted by name, descending, and all but the first
\* backup_versions entries are removed
rotate_backups(backup, filename) ==
    LET prefix == Chars(filename) \o <<Ch(".")>>
        listed == {b \in backup : starts_with(backup_name(b), prefix)}
        excess == {b \in listed :
                      Cardinality({c \in listed : NameLess(backup_name(b), backup_name(c))})
                          >= backup_versions}
    IN backup \ excess

create_backup(tree, dot, p, t, win) ==
    IF tree[p].is_dir
        THEN [ok |-> FALSE, kind |-> dir_as_file_kind(win, "InvalidPath"), dot |-> dot]
    ELSE [ok |-> TRUE, kind |-> "",
          dot |-> [dot EXCEPT !.backup =
                      rotate_backups(
                          {b \in dot.backup : b.name # file_name(p) \/ b.stamp # t}
                              \cup {[name |-> file_name(p), stamp |-> t, size |-> tree[p].size]},
                          file_name(p))]]

copy_file(src, dst, p, t, win) ==
    LET parent == create_dir_all(dst, Parent(p), t)
        created == touch_parent([parent.tree EXCEPT ![p] = FileEntryOf(0, t, NoHash)], p, t)
        written == [created EXCEPT ![p] =
                       set_file_mtime(win, FileEntryOf(src[p].size, t, NoHash), src[p].mtime)]
    IN IF ~parent.ok THEN [ok |-> FALSE, kind |-> "IoError", tree |-> dst]
       ELSE IF ~src[p].present THEN [ok |-> FALSE, kind |-> "NotFound", tree |-> parent.tree]
       ELSE IF src[p].is_dir /\ win
           THEN [ok |-> FALSE, kind |-> "PermissionDenied", tree |-> parent.tree]
       ELSE IF dst[p].present /\ dst[p].is_dir
           THEN [ok |-> FALSE, kind |-> dir_as_file_kind(win, "IoError"), tree |-> parent.tree]
       ELSE IF src[p].is_dir THEN [ok |-> FALSE, kind |-> "IoError", tree |-> created]
       ELSE [ok |-> TRUE, kind |-> "", tree |-> written]

\* verify_and_copy without the backup of the destination
verify_and_copy_without_backup(src, dst, dot, p, expected_size, snapshots, t, win) ==
    LET snapshot == {s \in snapshots : s.path = p}
        copy == copy_file(src, dst, p, t, win)
    IN IF snapshot # {} /\ \E s \in snapshot : ~verify_file(src[p], s)
           THEN Outcome("skipped", "", "File changed during sync", dst, dot)
       ELSE IF ~copy.ok THEN Outcome("failed", copy.kind, "", copy.tree, dot)
       ELSE IF copy.tree[p].size # expected_size
           THEN Outcome("failed", "IoError", "", copy.tree, dot)
       ELSE Outcome("completed", "", "", copy.tree, dot)

verify_and_copy(src, dst, dot, p, expected_size, snapshots, t, win) ==
    LET snapshot == {s \in snapshots : s.path = p}
        backup == IF dst[p].present /\ backup_enabled THEN create_backup(dst, dot, p, t, win)
                  ELSE [ok |-> TRUE, kind |-> "", dot |-> dot]
        copy == copy_file(src, dst, p, t, win)
    IN IF snapshot # {} /\ \E s \in snapshot : ~verify_file(src[p], s)
           THEN Outcome("skipped", "", "File changed during sync", dst, dot)
       ELSE IF ~backup.ok THEN Outcome("failed", backup.kind, "", dst, dot)
       ELSE IF ~copy.ok THEN Outcome("failed", copy.kind, "", copy.tree, backup.dot)
       ELSE IF copy.tree[p].size # expected_size
           THEN Outcome("failed", "IoError", "", copy.tree, backup.dot)
       ELSE Outcome("completed", "", "", copy.tree, backup.dot)

\* the rename into .rahzom/_trash takes a directory with all that is in it
soft_delete_file(tree, dot, p, t) ==
    Outcome("completed", "", "",
            touch_parent([q \in Paths |-> IF q = p \/ IsUnder(q, p) THEN NoEntry ELSE tree[q]], p, t),
            [dot EXCEPT !.trash = dot.trash \cup {[name |-> file_name(p), stamp |-> t]}])

delete_file(tree, dot, p, t) ==
    IF ~tree[p].present THEN Outcome("completed", "", "", tree, dot)
    ELSE IF soft_delete THEN soft_delete_file(tree, dot, p, t)
    ELSE IF tree[p].is_dir /\ \E q \in Paths : IsUnder(q, p) /\ tree[q].present
        THEN Outcome("failed", "IoError", "", tree, dot)
    ELSE Outcome("completed", "", "", touch_parent([tree EXCEPT ![p] = NoEntry], p, t), dot)

create_dir(tree, dot, p, t) ==
    LET made == create_dir_all(tree, p, t)
    IN IF made.ok THEN Outcome("completed", "", "", made.tree, dot)
       ELSE Outcome("failed", "IoError", "", tree, dot)

\* the side an action writes to
WritesLeft(action) == action.type \in {"CopyToLeft", "DeleteLeft", "CreateDirLeft"}

\* execute_action: Ok(None) for Skip and Conflict
execute_action(action, lt, rt, ld, rd, snapshots, t, win) ==
    CASE action.type = "CopyToRight" ->
            verify_and_copy(lt, rt, rd, action.path, action.size, snapshots, t, win)
      [] action.type = "CopyToLeft" ->
            verify_and_copy(rt, lt, ld, action.path, action.size, snapshots, t, win)
      [] action.type = "DeleteRight" -> delete_file(rt, rd, action.path, t)
      [] action.type = "DeleteLeft" -> delete_file(lt, ld, action.path, t)
      [] action.type = "CreateDirRight" -> create_dir(rt, rd, action.path, t)
      [] action.type = "CreateDirLeft" -> create_dir(lt, ld, action.path, t)
      [] OTHER -> Outcome("none", "", "", rt, rd)

\* the ExecutionResult of execute on a single action
execute(action, lt, rt, ld, rd, snapshots, t, win) ==
    LET out == execute_action(action, lt, rt, ld, rd, snapshots, t, win)
    IN [completed |-> IF out.status = "completed" THEN <<[action |-> action]>> ELSE <<>>,
        failed |-> IF out.status = "failed" THEN <<[action |-> action, kind |-> out.kind]>> ELSE <<>>,
        skipped |-> IF out.status = "skipped" THEN <<[action |-> action, reason |-> out.reason]>> ELSE <<>>,
        left_tree |-> IF WritesLeft(action) THEN out.tree ELSE lt,
        right_tree |-> IF WritesLeft(action) THEN rt ELSE out.tree,
        left_rahzom |-> IF WritesLeft(action) THEN out.dot ELSE ld,
        right_rahzom |-> IF WritesLeft(action) THEN rd ELSE out.dot]

-----------------------------------------------------------------------------
(* app/mod.rs and app/state.rs *)

\* to_sync_action that returns Some for Skip and Conflict as well
to_sync_action_keeps_all(a) == TRUE

\* UserAction::to_sync_action of an action the user has not overridden
to_sync_action(a) == a.type \notin {"Skip", "Conflict"}

\* the operations preview.summary() counts
total_operations(actions) ==
    Cardinality({i \in 1..Len(actions) : IsCopy(actions[i]) \/ IsDelete(actions[i]) \/ IsCreateDir(actions[i])})

\* the snapshot map start_sync builds: one entry for every scanned file,
\* under the key root.join(path)
build_snapshots(ls, rs) ==
    {[path |-> join(left_root, p), size |-> ls[p].size, mtime |-> ls[p].mtime] :
        p \in {q \in Paths : ls[q].present /\ ~ls[q].is_dir}}
    \cup {[path |-> join(right_root, p), size |-> rs[p].size, mtime |-> rs[p].mtime] :
        p \in {q \in Paths : rs[q].present /\ ~rs[q].is_dir}}

\* the loop of save_sync_metadata over result.completed
RECURSIVE record_completed(_, _, _, _, _, _)
record_completed(completed, lm, rm, lt, rt, t) ==
    IF completed = <<>> THEN <<lm, rm>>
    ELSE LET a == Head(completed).action
             rest == Tail(completed)
             right_state == FileState(a.path, rt[a.path].size, rt[a.path].mtime, NoHash)
             left_state == FileState(a.path, lt[a.path].size, lt[a.path].mtime, NoHash)
         IN CASE a.type = "CopyToRight" /\ rt[a.path].present ->
                    record_completed(rest, upsert_file(lm, right_state), upsert_file(rm, right_state), lt, rt, t)
              [] a.type = "CopyToLeft" /\ lt[a.path].present ->
                    record_completed(rest, upsert_file(lm, left_state), upsert_file(rm, left_state), lt, rt, t)
              [] a.type = "DeleteRight" ->
                    record_completed(rest, lm, mark_deleted(rm, DeletedFile(a.path, 0, t, t)), lt, rt, t)
              [] a.type = "DeleteLeft" ->
                    record_completed(rest, mark_deleted(lm, DeletedFile(a.path, 0, t, t)), rm, lt, rt, t)
              [] OTHER -> record_completed(rest, lm, rm, lt, rt, t)

\* save_sync_metadata without the loop over result.completed
save_sync_metadata_last_sync_only(result, lm, rm, lt, rt, t) ==
    <<[load(lm, t) EXCEPT !.last_sync = t], [load(rm, t) EXCEPT !.last_sync = t]>>

\* save_sync_metadata that starts from SyncMetadata::default() on both sides
save_sync_metadata_from_default(result, lm, rm, lt, rt, t) ==
    LET m == record_completed(result.completed, EmptyMeta, EmptyMeta, lt, rt, t)
    IN <<[m[1] EXCEPT !.last_sync = t], [m[2] EXCEPT !.last_sync = t]>>

\* the two SyncMetadata save_sync_metadata writes
save_sync_metadata(result, lm, rm, lt, rt, t) ==
    LET m == record_completed(result.completed,
                              unwrap_or_default(load_state_json(state_json.left, lm, t)),
                              unwrap_or_default(load_state_json(state_json.right, rm, t)),
                              lt, rt, t)
    IN <<[m[1] EXCEPT !.last_sync = t], [m[2] EXCEPT !.last_sync = t]>>

-----------------------------------------------------------------------------
(* The sync cycle of the application as a state machine: analyze, preview,  *)
(* confirm, execute one action per frame, save the metadata, and analyze    *)
(* again.  The user edits neither tree while the machine runs.             *)

MaxCycles == 1

ClockTimes == {3000, 6000}

\* a tree of a build for Windows holds no two names that differ in case only
CycleTrees(win) == {s \in PlainScans : win => ~s[<<"A">>].present}

\* what the two state.json hold for a path after an earlier cycle: nothing,
\* the FileState of a copy on both sides, or the tombstone of a propagated
\* delete on one side and the FileState on the other
CycleRecords ==
    {<<NoRecord, NoRecord>>, <<StateRecord(1, 0), StateRecord(1, 0)>>,
     <<Tombstone, StateRecord(1, 0)>>, <<StateRecord(1, 0), Tombstone>>}

InitCycle ==
    /\ windows \in BOOLEAN
    /\ left_tree \in CycleTrees(windows)
    /\ right_tree \in CycleTrees(windows)
    /\ \E p \in CasePaths, r \in CycleRecords :
          /\ left_meta = MetaOf([q \in Paths |-> IF q = p THEN r[1] ELSE NoRecord])
          /\ right_meta = MetaOf([q \in Paths |-> IF q = p THEN r[2] ELSE NoRecord])
    /\ left_rahzom = EmptyRahzom
    /\ right_rahzom = EmptyRahzom
    /\ now = 3000
    /\ screen = "ProjectView"
    /\ dialog = "None"
    /\ syncing = NoSyncing
    /\ sync_complete = NoSyncComplete
    /\ cycles = [started |-> 0, saved |-> 0]
    /\ left_scan = EmptyScan
    /\ right_scan = EmptyScan
    /\ plan = <<>>
    /\ plan2 = <<>>
    /\ pc = "cycle"
    /\ StoreIdle
    /\ LibIdle

\* time passes
Tick ==
    /\ \E t \in ClockTimes : t > now /\ now' = t
    /\ UNCHANGED <<diffVars, storeVars, libVars, treeVars, windows, appVars>>

\* key 'a' on the project screen: run_analyze
RunAnalyze ==
    /\ screen = "ProjectView"
    /\ dialog = "None"
    /\ left_scan' = scan_with_loaded_exclusions(left_tree, rahzomignore.left)
    /\ right_scan' = scan_with_loaded_exclusions(right_tree, rahzomignore.right)
    /\ plan' \in diff(scan_with_loaded_exclusions(left_tree, rahzomignore.left),
                     scan_with_loaded_exclusions(right_tree, rahzomignore.right),
                     unwrap_or_default(load_state_json(state_json.left, left_meta, now)),
                     unwrap_or_default(load_state_json(state_json.right, right_meta, now)))
    /\ screen' = "Preview"
    /\ UNCHANGED <<left_meta, right_meta, plan2, pc, storeVars, libVars, treeVars, now, windows,
                   dialog, syncing, sync_complete, cycles>>

\* Esc on the preview screen
LeavePreview ==
    /\ screen = "Preview"
    /\ dialog = "None"
    /\ screen' = "ProjectView"
    /\ plan' = <<>>
    /\ left_scan' = EmptyScan
    /\ right_scan' = EmptyScan
    /\ UNCHANGED <<left_meta, right_meta, plan2, pc, storeVars, libVars, treeVars, now, windows,
                   dialog, syncing, sync_complete, cycles>>

\* key 'g' on the preview screen: show_sync_confirmation
ShowSyncConfirmation ==
    /\ screen = "Preview"
    /\ dialog = "None"
    /\ dialog' = IF total_operations(plan) = 0 THEN "Error" ELSE "SyncConfirm"
    /\ UNCHANGED <<diffVars, storeVars, libVars, treeVars, now, windows, screen, syncing, sync_complete, cycles>>

\* Enter or Esc on the error dialog
DismissError ==
    /\ dialog = "Error"
    /\ dialog' = "None"
    /\ UNCHANGED <<diffVars, storeVars, libVars, treeVars, now, windows, screen, syncing, sync_complete, cycles>>

\* Esc on the confirmation dialog
DeclineSync ==
    /\ dialog = "SyncConfirm"
    /\ dialog' = "None"
    /\ UNCHANGED <<diffVars, storeVars, libVars, treeVars, now, windows, screen, syncing, sync_complete, cycles>>

\* Enter on the confirmation dialog: start_sync
StartSync ==
    LET actions == SelectSeq(plan, to_sync_action)
    IN /\ dialog = "SyncConfirm"
       /\ cycles.started < MaxCycles
       /\ IF actions = <<>>
             THEN /\ dialog' = "Error"
                  /\ UNCHANGED <<screen, syncing, cycles>>
          ELSE /\ dialog' = "None"
               /\ screen' = "Syncing"
               /\ syncing' = [some |-> TRUE, actions |-> actions, total_actions |-> Len(actions),
                              completed_actions |-> 0, current_index |-> 0,
                              cancel_requested |-> FALSE,
                              snapshots |-> build_snapshots(left_scan, right_scan),
                              result |-> EmptyResult]
               /\ cycles' = [cycles EXCEPT !.started = @ + 1]
       /\ UNCHANGED <<diffVars, storeVars, libVars, treeVars, now, windows, sync_complete>>

\* finish_sync without the test of cancelled: the metadata is always saved
finish_sync_saves_always(cancelled) ==
    /\ \E saved \in {save_sync_metadata(syncing.result, left_meta, right_meta,
                                          left_tree, right_tree, now)} :
          /\ left_meta' = saved[1]
          /\ right_meta' = saved[2]
    /\ cycles' = [cycles EXCEPT !.saved = @ + 1]
    /\ sync_complete' = [some |-> TRUE, completed |-> syncing.result.completed,
                         failed |-> syncing.result.failed, skipped |-> syncing.result.skipped]
    /\ syncing' = NoSyncing
    /\ plan' = <<>>
    /\ left_scan' = EmptyScan
    /\ right_scan' = EmptyScan
    /\ screen' = "SyncComplete"
    /\ UNCHANGED <<plan2, pc, storeVars, libVars, treeVars, now, windows, dialog>>

\* finish_sync: the metadata is saved unless the cycle was cancelled
finish_sync(cancelled) ==
    /\ IF cancelled
          THEN UNCHANGED <<left_meta, right_meta, cycles>>
       ELSE /\ \E saved \in {save_sync_metadata(syncing.result, left_meta, right_meta,
                                                  left_tree, right_tree, now)} :
                  /\ left_meta' = saved[1]
                  /\ right_meta' = saved[2]
            /\ cycles' = [cycles EXCEPT !.saved = @ + 1]
    /\ sync_complete' = [some |-> TRUE, completed |-> syncing.result.completed,
                         failed |-> syncing.result.failed, skipped |-> syncing.result.skipped]
    /\ syncing' = NoSyncing
    /\ plan' = <<>>
    /\ left_scan' = EmptyScan
    /\ right_scan' = EmptyScan
    /\ screen' = "SyncComplete"
    /\ UNCHANGED <<plan2, pc, storeVars, libVars, treeVars, now, windows, dialog>>

\* execute_next_sync_action, cancel_requested set
FinishCancelled ==
    /\ screen = "Syncing"
    /\ dialog = "None"
    /\ syncing.cancel_requested
    /\ finish_sync(TRUE)

\* execute_next_sync_action, every action passed
FinishSync ==
    /\ screen = "Syncing"
    /\ dialog = "None"
    /\ ~syncing.cancel_requested
    /\ syncing.current_index >= Len(syncing.actions)
    /\ finish_sync(FALSE)

\* execute_next_sync_action that records the outcome and stays at the same
\* action
ExecuteNextSyncAction_keeps_index ==
    /\ screen = "Syncing"
    /\ dialog = "None"
    /\ ~syncing.cancel_requested
    /\ syncing.current_index < Len(syncing.actions)
    /\ \E result \in {execute(syncing.actions[syncing.current_index + 1],
                               left_tree, right_tree, left_rahzom, right_rahzom,
                               syncing.snapshots, now, windows)} :
          /\ left_tree' = result.left_tree
          /\ right_tree' = result.right_tree
          /\ left_rahzom' = result.left_rahzom
          /\ right_rahzom' = result.right_rahzom
          /\ IF result.failed # <<>> /\ result.failed[1].kind \in {"FileLocked", "PermissionDenied"}
                THEN /\ dialog' = "FileError"
                     /\ UNCHANGED syncing
             ELSE /\ syncing' = [syncing EXCEPT
                                    !.result = [completed |-> result.completed,
                                                failed |-> result.failed,
                                                skipped |-> result.skipped]]
                  /\ UNCHANGED dialog
    /\ UNCHANGED <<diffVars, storeVars, libVars, now, windows, screen, sync_complete, cycles>>

\* execute_next_sync_action without the test of cancel_requested
ExecuteNextSyncAction_ignores_cancel ==
    /\ screen = "Syncing"
    /\ dialog = "None"
    /\ syncing.current_index < Len(syncing.actions)
    /\ \E result \in {execute(syncing.actions[syncing.current_index + 1],
                               left_tree, right_tree, left_rahzom, right_rahzom,
                               syncing.snapshots, now, windows)} :
          /\ left_tree' = result.left_tree
          /\ right_tree' = result.right_tree
          /\ left_rahzom' = result.left_rahzom
          /\ right_rahzom' = result.right_rahzom
          /\ IF result.failed # <<>> /\ result.failed[1].kind \in {"FileLocked", "PermissionDenied"}
                THEN /\ dialog' = "FileError"
                     /\ UNCHANGED syncing
             ELSE /\ syncing' = [syncing EXCEPT
                                    !.result = [completed |-> @.completed \o result.completed,
                                                failed |-> @.failed \o result.failed,
                                                skipped |-> @.skipped \o result.skipped],
                                    !.completed_actions = @ + 1,
                                    !.current_index = @ + 1]
                  /\ UNCHANGED dialog
    /\ UNCHANGED <<diffVars, storeVars, libVars, now, windows, screen, sync_complete, cycles>>

\* execute_next_sync_action, the action at current_index is executed alone
ExecuteNextSyncAction ==
    /\ screen = "Syncing"
    /\ dialog = "None"
    /\ ~syncing.cancel_requested
    /\ syncing.current_index < Len(syncing.actions)
    /\ \E result \in {execute(syncing.actions[syncing.current_index + 1],
                               left_tree, right_tree, left_rahzom, right_rahzom,
                               syncing.snapshots, now, windows)} :
          /\ left_tree' = result.left_tree
          /\ right_tree' = result.right_tree
          /\ left_rahzom' = result.left_rahzom
          /\ right_rahzom' = result.right_rahzom
          /\ IF result.failed # <<>> /\ result.failed[1].kind \in {"FileLocked", "PermissionDenied"}
                THEN /\ dialog' = "FileError"
                     /\ UNCHANGED syncing
             ELSE /\ syncing' = [syncing EXCEPT
                                    !.result = [completed |-> @.completed \o result.completed,
                                                failed |-> @.failed \o result.failed,
                                                skipped |-> @.skipped \o result.skipped],
                                    !.completed_actions = @ + 1,
                                    !.current_index = @ + 1]
                  /\ UNCHANGED dialog
    /\ UNCHANGED <<diffVars, storeVars, libVars, now, windows, screen, sync_complete, cycles>>

\* Esc on the syncing screen
AskCancel ==
    /\ screen = "Syncing"
    /\ dialog = "None"
    /\ dialog' = "CancelSyncConfirm"
    /\ UNCHANGED <<diffVars, storeVars, libVars, treeVars, now, windows, screen, syncing, sync_complete, cycles>>

\* 'y' on the cancel dialog
ConfirmCancel ==
    /\ dialog = "CancelSyncConfirm"
    /\ dialog' = "None"
    /\ syncing' = [syncing EXCEPT !.cancel_requested = TRUE]
    /\ UNCHANGED <<diffVars, storeVars, libVars, treeVars, now, windows, screen, sync_complete, cycles>>

\* 'n' on the cancel dialog
DeclineCancel ==
    /\ dialog = "CancelSyncConfirm"
    /\ dialog' = "None"
    /\ UNCHANGED <<diffVars, storeVars, libVars, treeVars, now, windows, screen, syncing, sync_complete, cycles>>

\* 'r' on the file error dialog: the action is attempted again
FileErrorRetry ==
    /\ dialog = "FileError"
    /\ dialog' = "None"
    /\ UNCHANGED <<diffVars, storeVars, libVars, treeVars, now, windows, screen, syncing, sync_complete, cycles>>

\* skip_current_sync_action that moves on without pushing to skipped
FileErrorSkip_records_nothing ==
    /\ dialog = "FileError"
    /\ dialog' = "None"
    /\ syncing' = IF syncing.current_index >= Len(syncing.actions) THEN syncing
                  ELSE [syncing EXCEPT !.completed_actions = @ + 1, !.current_index = @ + 1]
    /\ UNCHANGED <<diffVars, storeVars, libVars, treeVars, now, windows, screen, sync_complete, cycles>>

\* 's' on the file error dialog: skip_current_sync_action
FileErrorSkip ==
    /\ dialog = "FileError"
    /\ dialog' = "None"
    /\ syncing' = IF syncing.current_index >= Len(syncing.actions) THEN syncing
                  ELSE [syncing EXCEPT
                           !.result.skipped = Append(@, [action |-> syncing.actions[syncing.current_index + 1],
                                                        reason |-> "Skipped by user"]),
                           !.completed_actions = @ + 1,
                           !.current_index = @ + 1]
    /\ UNCHANGED <<diffVars, storeVars, libVars, treeVars, now, windows, screen, sync_complete, cycles>>

\* 'c' on the file error dialog
FileErrorCancel ==
    /\ dialog = "FileError"
    /\ dialog' = "None"
    /\ syncing' = [syncing EXCEPT !.cancel_requested = TRUE]
    /\ UNCHANGED <<diffVars, storeVars, libVars, treeVars, now, windows, screen, sync_complete, cycles>>

\* Enter on the completion screen
LeaveSyncComplete ==
    /\ screen = "SyncComplete"
    /\ dialog = "None"
    /\ screen' = "ProjectView"
    /\ sync_complete' = NoSyncComplete
    /\ UNCHANGED <<diffVars, storeVars, libVars, treeVars, now, windows, dialog, syncing, cycles>>

NextCycle ==
    \/ Tick
    \/ RunAnalyze
    \/ LeavePreview
    \/ ShowSyncConfirmation
    \/ DismissError
    \/ DeclineSync
    \/ StartSync
    \/ ExecuteNextSyncAction
    \/ FinishSync
    \/ FinishCancelled
    \/ AskCancel
    \/ ConfirmCancel
    \/ DeclineCancel
    \/ FileErrorRetry
    \/ FileErrorSkip
    \/ FileErrorCancel
    \/ LeaveSyncComplete

\* what one turn of the loop of App::run does on the syncing screen when no
\* dialog is open: execute_next_sync_action
SyncFrame == ExecuteNextSyncAction \/ FinishSync \/ FinishCancelled

\* the loop of App::run keeps running: a frame with no dialog open calls
\* execute_next_sync_action before the next event is read, so that call is
\* taken again and again whenever it is possible again and again; and the
\* user answers every dialog that opens during a cycle
LoopRuns ==
    /\ SF_vars(SyncFrame)
    /\ WF_vars(ConfirmCancel \/ DeclineCancel)
    /\ WF_vars(FileErrorRetry \/ FileErrorSkip \/ FileErrorCancel)

SpecCycle == InitCycle /\ [][NextCycle]_vars

-----------------------------------------------------------------------------
(* run_analyze over the files a side keeps for the program: a state.json   *)
(* that is absent, readable or corrupt, and a .rahzomignore that is absent, *)
(* well formed or holds a line that is not a glob.                          *)

AnalyzeTrees ==
    {s \in PlainScans : \A p \in Paths : s[p].present => s[p].mtime = 0}

FileStatus == {"absent", "valid", "corrupt"}

\* what a state.json that can be read holds
AnalyzeMetas == {EmptyMeta, MetaOf([q \in Paths |-> IF q = <<"a">> THEN StateRecord(1, 0) ELSE NoRecord])}

IgnoreFiles ==
    {NoIgnoreFile} \cup
    {[exists |-> TRUE, patterns |-> ps, invalid |-> b] :
        ps \in {{}, {Literal(<<"A">>)}, {DirPattern(<<"a">>)}}, b \in BOOLEAN}

InitAnalyze ==
    /\ windows = FALSE
    /\ left_tree \in AnalyzeTrees
    /\ right_tree \in {EmptyTree, [EmptyTree EXCEPT ![<<"a">>] = FileEntryOf(1, 0, NoHash)]}
    /\ state_json \in [left : FileStatus, right : FileStatus]
    /\ left_meta \in IF state_json.left = "valid" THEN AnalyzeMetas ELSE {EmptyMeta}
    /\ right_meta \in IF state_json.right = "valid" THEN AnalyzeMetas ELSE {EmptyMeta}
    /\ rahzomignore \in [left : IgnoreFiles, right : {f \in IgnoreFiles : f.patterns = {}}]
    /\ left_rahzom = EmptyRahzom
    /\ right_rahzom = EmptyRahzom
    /\ now = 3000
    /\ screen = "ProjectView"
    /\ dialog = "None"
    /\ syncing = NoSyncing
    /\ sync_complete = NoSyncComplete
    /\ cycles = [started |-> 0, saved |-> 0]
    /\ left_scan = EmptyScan
    /\ right_scan = EmptyScan
    /\ plan = <<>>
    /\ plan2 = <<>>
    /\ pc = "cycle"
    /\ StoreIdle
    /\ call = NoExecCall
    /\ progress = <<>>
    /\ links = {}
    /\ exclusions = {}
    /\ scanned = NoScanResult
    /\ retention = 0

SpecAnalyze == InitAnalyze /\ [][RunAnalyze \/ LeavePreview]_vars

-----------------------------------------------------------------------------
(* The sync cycle over two paths that do not collide, "a" and "c", so that  *)
(* one plan holds several copies and deletes.                               *)

OrderTrees ==
    {s \in [Paths -> {NoEntry, DirEntryOf(0)} \cup PlainFiles] :
        /\ ~s[<<"A">>].present
        /\ ~s[<<"c">>].is_dir
        /\ s[<<"a", "b">>].present => s[<<"a">>].is_dir
        /\ s[<<"a", "b">>].present => s[<<"a", "b">>].mtime = 0}

InitOrder ==
    /\ windows \in BOOLEAN
    /\ left_tree \in OrderTrees
    /\ right_tree \in OrderTrees
    /\ \E p \in {<<"a">>, <<"c">>}, r \in CycleRecords :
          /\ left_meta = MetaOf([q \in Paths |-> IF q = p THEN r[1] ELSE NoRecord])
          /\ right_meta = MetaOf([q \in Paths |-> IF q = p THEN r[2] ELSE NoRecord])
    /\ left_rahzom = EmptyRahzom
    /\ right_rahzom = EmptyRahzom
    /\ now = 3000
    /\ screen = "ProjectView"
    /\ dialog = "None"
    /\ syncing = NoSyncing
    /\ sync_complete = NoSyncComplete
    /\ cycles = [started |-> 0, saved |-> 0]
    /\ left_scan = EmptyScan
    /\ right_scan = EmptyScan
    /\ plan = <<>>
    /\ plan2 = <<>>
    /\ pc = "cycle"
    /\ StoreIdle
    /\ LibIdle

SpecOrder == InitOrder /\ [][NextCycle]_vars

-----------------------------------------------------------------------------
(* The sync cycle while another program works in the two roots: after the   *)
(* scan a file may be rewritten with another size, or removed.              *)

DriftTrees ==
    {s \in OrderTrees : ~s[<<"a", "b">>].present /\ \A p \in Paths : s[p].present => s[p].mtime = 0}

InitDrift ==
    /\ windows \in BOOLEAN
    /\ left_tree \in {s \in DriftTrees : ~s[<<"c">>].present}
    /\ right_tree \in DriftTrees
    /\ \E r \in CycleRecords :
          /\ left_meta = MetaOf([q \in Paths |-> IF q = <<"a">> THEN r[1] ELSE NoRecord])
          /\ right_meta = MetaOf([q \in Paths |-> IF q = <<"a">> THEN r[2] ELSE NoRecord])
    /\ left_rahzom = EmptyRahzom
    /\ right_rahzom = EmptyRahzom
    /\ now = 3000
    /\ screen = "ProjectView"
    /\ dialog = "None"
    /\ syncing = NoSyncing
    /\ sync_complete = NoSyncComplete
    /\ cycles = [started |-> 0, saved |-> 0]
    /\ left_scan = EmptyScan
    /\ right_scan = EmptyScan
    /\ plan = <<>>
    /\ plan2 = <<>>
    /\ pc = "cycle"
    /\ StoreIdle
    /\ LibIdle

\* what another program leaves of a file of size 1: a file of size 0 written
\* now, or nothing
Rewritten(tree, p, t) ==
    {[tree EXCEPT ![p] = FileEntryOf(0, t, NoHash)], [tree EXCEPT ![p] = NoEntry]}

\* another program rewrites or removes the file c of a root while the cycle runs
ExternalChange ==
    /\ screen = "Syncing"
    /\ \E p \in {<<"c">>} :
          \/ /\ left_tree[p].present /\ ~left_tree[p].is_dir /\ left_tree[p].size = 1
             /\ left_tree' \in Rewritten(left_tree, p, now)
             /\ UNCHANGED right_tree
          \/ /\ right_tree[p].present /\ ~right_tree[p].is_dir /\ right_tree[p].size = 1
             /\ right_tree' \in Rewritten(right_tree, p, now)
             /\ UNCHANGED left_tree
    /\ UNCHANGED <<diffVars, storeVars, libVars, left_rahzom, right_rahzom, now, windows, appVars>>

SpecDrift == InitDrift /\ [][NextCycle \/ ExternalChange]_vars

\* the cycle over the same roots with no other program at work, the loop of
\* App::run running for ever
SpecCycleFair == InitDrift /\ [][NextCycle]_vars /\ LoopRuns

-----------------------------------------------------------------------------
(* Executor::execute on a list of actions, as a state machine: the list is  *)
(* sorted, then one action per step is carried out and its outcome          *)
(* recorded; other programs change the files of the left root meanwhile.    *)

\* stands for usize::MAX; it is only subtracted from
usize_MAX == 2147483647

\* (u8, usize, bool)
action_order(action) ==
    IF IsCreateDir(action) THEN <<0, Depth(action.path), 0>>
    ELSE IF IsCopy(action) THEN <<1, Depth(action.path), 0>>
    ELSE IF IsDelete(action) THEN <<2, usize_MAX - Depth(action.path), 1>>
    ELSE <<3, 0, 0>>

\* Ord of tuples
TupleLess(x, y) ==
    \/ x[1] < y[1]
    \/ x[1] = y[1] /\ x[2] < y[2]
    \/ x[1] = y[1] /\ x[2] = y[2] /\ x[3] < y[3]

sort_actions_keeps_order(actions) == actions

\* Vec::sort_by is stable
sort_actions(actions) ==
    LET n == Len(actions)
        Before(i, j) ==
            \/ TupleLess(action_order(actions[i]), action_order(actions[j]))
            \/ action_order(actions[i]) = action_order(actions[j]) /\ i < j
        place(i) == 1 + Cardinality({j \in 1..n : Before(j, i)})
    IN [k \in 1..n |-> actions[CHOOSE i \in 1..n : place(i) = k]]

SyncErrorKind ==
    {"FileLocked", "PermissionDenied", "DiskFull", "FileChanged", "PathTooLong",
     "InvalidPath", "NotFound", "IoError"}

\* the arms of the match on execute_action's result, without the failed arm's push
record_outcome_drops_failed(result, action, out) ==
    IF out.status = "completed"
        THEN [result EXCEPT !.completed = Append(@, [action |-> action])]
    ELSE IF out.status = "skipped"
        THEN [result EXCEPT !.skipped = Append(@, [action |-> action, reason |-> out.reason])]
    ELSE result

\* the arms of the match on execute_action's result; Ok(None) pushes nothing
record_outcome(result, action, out) ==
    IF out.status = "completed"
        THEN [result EXCEPT !.completed = Append(@, [action |-> action])]
    ELSE IF out.status = "skipped"
        THEN [result EXCEPT !.skipped = Append(@, [action |-> action, reason |-> out.reason])]
    ELSE IF out.status = "failed"
        THEN [result EXCEPT !.failed = Append(@, [action |-> action, kind |-> out.kind])]
    ELSE result

\* ProgressCallback::on_progress(current, total, path)
on_progress(current, total, path) ==
    [callback |-> "on_progress", current |-> current, total |-> total, path |-> path,
     type |-> "", success |-> TRUE]

\* ProgressCallback::on_file_complete(action, success)
on_file_complete(action, success) ==
    [callback |-> "on_file_complete", current |-> 0, total |-> 0, path |-> action.path,
     type |-> action.type, success |-> success]

MaxBatch == 2

ExecPool ==
    {CreateDirRight(<<"a">>), CreateDirRight(<<"a", "b">>),
     CopyToRight(<<"a", "b">>, 1), CopyToRight(<<"A">>, 1), CopyToLeft(<<"a", "b">>, 0),
     CopyToRight(<<"a">>, 0),
     DeleteLeft(<<"a">>), DeleteLeft(<<"a", "b">>),
     Skip(<<"A">>, "Files are identical"), Conflict(<<"A">>, "BothModified", NoInfo, NoInfo)}

\* the lists of at most MaxBatch different actions, in every order
ExecBatches ==
    UNION {{b \in [1..n -> ExecPool] : \A i, j \in 1..n : i # j => b[i] # b[j]} : n \in 0..MaxBatch}

ExecLeftTree ==
    [EmptyTree EXCEPT ![<<"a">>] = DirEntryOf(0), ![<<"a", "b">>] = FileEntryOf(1, 0, NoHash)]

ExecRightTrees ==
    {EmptyTree,
     [EmptyTree EXCEPT ![<<"a">>] = DirEntryOf(0), ![<<"a", "b">>] = FileEntryOf(0, 0, NoHash)],
     [EmptyTree EXCEPT ![<<"a">>] = FileEntryOf(1, 0, NoHash)]}

\* HashMap<PathBuf, FileSnapshot>, keyed by the relative path
FileSnapshot(p, size, mtime) == [path |-> p, size |-> size, mtime |-> mtime]

ExecSnapshots ==
    {{}, {FileSnapshot(<<"a", "b">>, 1, 0), FileSnapshot(<<"A">>, 1, 0)}}

InitExec ==
    /\ windows \in BOOLEAN
    /\ left_tree = ExecLeftTree
    /\ right_tree \in ExecRightTrees
    /\ left_rahzom = EmptyRahzom
    /\ right_rahzom = EmptyRahzom
    /\ now = 3000
    /\ \E actions \in ExecBatches, snapshots \in ExecSnapshots :
          call = [some |-> TRUE, actions |-> actions, snapshots |-> snapshots,
                  sorted |-> sort_actions(actions), index |-> 0,
                  result |-> EmptyResult, returned |-> FALSE]
    /\ progress = <<>>
    /\ links = {}
    /\ exclusions = {}
    /\ scanned = NoScanResult
    /\ retention = 0
    /\ FilesIdle
    /\ screen = "ProjectView"
    /\ dialog = "None"
    /\ syncing = NoSyncing
    /\ sync_complete = NoSyncComplete
    /\ cycles = [started |-> 0, saved |-> 0]
    /\ DiffIdle
    /\ StoreIdle

\* one turn of the loop of execute
ExecuteStep ==
    /\ call.some /\ ~call.returned
    /\ call.index < Len(call.sorted)
    /\ LET action == call.sorted[call.index + 1]
       IN \E out \in {execute_action(action, left_tree, right_tree, left_rahzom,
                                     right_rahzom, call.snapshots, now, windows)} :
             /\ progress' = progress \o
                    <<on_progress(call.index + 1, Len(call.sorted), action.path),
                      on_file_complete(action, out.status # "failed")>>
             /\ call' = [call EXCEPT !.index = @ + 1,
                                     !.result = record_outcome(@, action, out)]
             /\ left_tree' = IF WritesLeft(action) THEN out.tree ELSE left_tree
             /\ left_rahzom' = IF WritesLeft(action) THEN out.dot ELSE left_rahzom
             /\ right_tree' = IF WritesLeft(action) THEN right_tree ELSE out.tree
             /\ right_rahzom' = IF WritesLeft(action) THEN right_rahzom ELSE out.dot
    /\ UNCHANGED <<diffVars, storeVars, scanVars, loadVars, now, windows, appVars>>

\* Ok(result)
ExecuteReturn ==
    /\ call.some /\ ~call.returned
    /\ call.index = Len(call.sorted)
    /\ call' = [call EXCEPT !.returned = TRUE]
    /\ UNCHANGED <<diffVars, storeVars, progress, scanVars, loadVars, treeVars, now, windows, appVars>>

\* another program rewrites, touches or removes a file of the left root
\* while execute runs
FileChanged ==
    /\ call.some /\ ~call.returned
    /\ \E p \in Paths :
          /\ left_tree[p].present /\ ~left_tree[p].is_dir
          /\ \E e \in {NoEntry} \cup {FileEntryOf(size, t, NoHash) : size \in Sizes, t \in Times} :
                /\ e # left_tree[p]
                /\ left_tree' = [left_tree EXCEPT ![p] = e]
    /\ UNCHANGED <<diffVars, storeVars, libVars, right_tree, left_rahzom, right_rahzom,
                   now, windows, appVars>>

NextExec == ExecuteStep \/ ExecuteReturn \/ FileChanged

SpecExec == InitExec /\ [][NextExec]_vars

-----------------------------------------------------------------------------
(* Repeated overwriting copies, as a state machine: execute is called with  *)
(* one CopyToRight at a time, as the application calls it, while the clock  *)
(* advances; every copy finds its destination and backs it up first.        *)

MaxCopies == 7

\* a tree of a build for Windows holds no two names that differ in case only
BackupTree(win) ==
    [EmptyTree EXCEPT ![<<"a">>] = DirEntryOf(0),
                      ![<<"a", "b">>] = FileEntryOf(1, 0, NoHash),
                      ![<<"A">>] = IF win THEN NoEntry ELSE FileEntryOf(1, 0, NoHash)]

\* the backups that earlier cycles left of a file "b.x" of the right root,
\* which is no longer there: none, one, or backup_versions of them, a second
\* apart, the last a second before the clock of the model starts
EarlierBackups ==
    {{[name |-> "b.x", stamp |-> -1000 * i, size |-> 1] : i \in 1..k} : k \in {0, 1, backup_versions}}

InitBackup ==
    /\ windows \in BOOLEAN
    /\ left_tree = BackupTree(windows)
    /\ right_tree = BackupTree(windows)
    /\ left_rahzom = EmptyRahzom
    /\ right_rahzom \in {[EmptyRahzom EXCEPT !.backup = e] : e \in EarlierBackups}
    /\ now = 0
    /\ screen = "ProjectView"
    /\ dialog = "None"
    /\ syncing = NoSyncing
    /\ sync_complete = NoSyncComplete
    /\ cycles = [started |-> 0, saved |-> 0]
    /\ DiffIdle
    /\ StoreIdle
    /\ LibIdle

\* some time passes, or none, and execute(vec![CopyToRight], no snapshots)
OverwriteCopy ==
    /\ Len(progress) < 2 * MaxCopies
    /\ \E dt \in {0, 1000}, p \in Paths :
          /\ left_tree[p].present /\ ~left_tree[p].is_dir
          /\ now' = now + dt
          /\ \E result \in {execute(CopyToRight(p, left_tree[p].size), left_tree, right_tree,
                                    left_rahzom, right_rahzom, {}, now + dt, windows)} :
                /\ right_tree' = result.right_tree
                /\ right_rahzom' = result.right_rahzom
                /\ progress' = progress \o
                       <<on_progress(1, 1, p),
                         on_file_complete(CopyToRight(p, left_tree[p].size), result.failed = <<>>)>>
    /\ UNCHANGED <<diffVars, storeVars, call, scanVars, loadVars, left_tree, left_rahzom,
                   windows, appVars>>

SpecBackup == InitBackup /\ [][OverwriteCopy]_vars

-----------------------------------------------------------------------------
(* SyncMetadata::load_with_retention of a state.json, as a state machine:   *)
(* the file, the retention and the time of the call are drawn, then the     *)
(* call is made.                                                            *)

MaxTombs == 2

\* retention_days is an i64
RetentionDays == {-1, 0, 1, 2}

LoadTimes == {2 * MsPerDay, 3 * MsPerDay}

TombTimes == {0, MsPerDay, MsPerDay + 1, 2 * MsPerDay, 3 * MsPerDay, 4 * MsPerDay}

\* the deleted lists of at most MaxTombs tombstones; mark_deleted keeps one
\* tombstone per path
TombLists ==
    UNION {{l \in [1..n -> {DeletedFile(p, 1, 0, d) : p \in CasePaths, d \in TombTimes}] :
               \A i, j \in 1..n : i # j => l[i].path # l[j].path} : n \in 0..MaxTombs}

InitLoad ==
    /\ \E l \in TombLists : store_before = [EmptyMeta EXCEPT !.deleted = l]
    /\ store = EmptyMeta
    /\ last_call = NoCall
    /\ now \in LoadTimes
    /\ retention \in RetentionDays
    /\ FilesIdle
    /\ left_tree = EmptyTree
    /\ right_tree = EmptyTree
    /\ left_rahzom = EmptyRahzom
    /\ right_rahzom = EmptyRahzom
    /\ windows = FALSE
    /\ screen = "ProjectView"
    /\ dialog = "None"
    /\ syncing = NoSyncing
    /\ sync_complete = NoSyncComplete
    /\ cycles = [started |-> 0, saved |-> 0]
    /\ call = NoExecCall
    /\ progress = <<>>
    /\ links = {}
    /\ exclusions = {}
    /\ scanned = NoScanResult
    /\ DiffIdle

\* load_with_retention(root, retention) where state.json holds store_before
LoadWithRetention ==
    /\ last_call = NoCall
    /\ store' = load_with_retention(store_before, retention, now)
    /\ last_call' = [op |-> "load_with_retention", path |-> <<>>]
    /\ UNCHANGED <<diffVars, store_before, libVars, cycleVars>>

SpecLoad == InitLoad /\ [][LoadWithRetention]_vars

-----------------------------------------------------------------------------
(* sync/scanner.rs and sync/exclusions.rs: scan_with_exclusions over a tree  *)
(* with symbolic links, a .rahzom directory and exclusion patterns, as a     *)
(* state machine: the tree and the patterns are drawn, then the scan is run. *)

\* what there is at a path: nothing, a file, a directory, or a symbolic
\* link to a file or to a directory
ScanKinds == {"none", "file", "dir", "linkfile", "linkdir"}

ScanShapes ==
    {k \in [ScanPaths -> ScanKinds] :
        /\ k[<<SKIP_DIR>>] \in {"none", "dir"}
        /\ \A p \in ScanPaths : (Len(p) > 1 /\ k[p] # "none") => k[Parent(p)] = "dir"}

TreeOfShape(k) ==
    [p \in ScanPaths |-> IF k[p] = "none" THEN NoEntry
                         ELSE IF k[p] \in {"dir", "linkdir"} THEN DirEntryOf(0)
                         ELSE FileEntryOf(1, 0, NoHash)]

InitScan ==
    /\ \E k \in ScanShapes :
          /\ left_tree = TreeOfShape(k)
          /\ links = {p \in ScanPaths : k[p] \in {"linkfile", "linkdir"}}
    /\ exclusions \in SUBSET ExclPatterns
    /\ scanned = NoScanResult
    /\ right_tree = EmptyTree
    /\ left_rahzom = EmptyRahzom
    /\ right_rahzom = EmptyRahzom
    /\ now = 0
    /\ windows = FALSE
    /\ screen = "ProjectView"
    /\ dialog = "None"
    /\ syncing = NoSyncing
    /\ sync_complete = NoSyncComplete
    /\ cycles = [started |-> 0, saved |-> 0]
    /\ call = NoExecCall
    /\ progress = <<>>
    /\ retention = 0
    /\ FilesIdle
    /\ DiffIdle
    /\ StoreIdle

\* scan_with_exclusions(root, Some(exclusions))
Scan ==
    /\ ~scanned.some
    /\ scanned' = scan_result(left_tree, links, exclusions)
    /\ UNCHANGED <<diffVars, storeVars, execVars, links, exclusions, loadVars, cycleVars>>

SpecScan == InitScan /\ [][Scan]_vars

-----------------------------------------------------------------------------
(* Properties of the plan returned by diff *)

Planned == pc = "planned"

\* the actions of the plan that name path p
ActionsFor(p) == {i \in 1..Len(plan) : plan[i].path = p}

EmitsOnly(p, a) == ActionsFor(p) # {} /\ \A i \in ActionsFor(p) : plan[i] = a

EmitsOnce(p, a) == Cardinality({i \in ActionsFor(p) : plan[i] = a}) = 1

NoCopyFor(p) == \A i \in ActionsFor(p) : ~IsCopy(plan[i])

NoDeleteFor(p) == \A i \in ActionsFor(p) : ~IsDelete(plan[i])

NoConflictFor(p) == \A i \in ActionsFor(p) : plan[i].type # "Conflict"

IsFile(e) == e.present /\ ~e.is_dir

\* the entry has changed relative to the side's own prior FileState; a
\* missing prior FileState counts as changed
ChangedOn(scan, meta, p) ==
    \/ \A i \in 1..Len(meta.files) : meta.files[i].path # p
    \/ file_changed_since(scan[p], find_file(meta, p))

HasPrior(meta, p) == \E i \in 1..Len(meta.files) : meta.files[i].path = p

HasTombstone(meta, p) == \E i \in 1..Len(meta.deleted) : meta.deleted[i].path = p

\* some other scanned path equals p case-insensitively
CaseCollides(p) ==
    \E q \in Paths : /\ q # p
                     /\ left_scan[q].present \/ right_scan[q].present
                     /\ to_lowercase(q) = to_lowercase(p)

\* the place of an action in the order of execution
Rank(a) == IF IsCreateDir(a) THEN 0 ELSE IF IsCopy(a) THEN 1 ELSE IF IsDelete(a) THEN 2 ELSE 3

\* C1: every CreateDir comes before every copy, every copy before every
\* delete, a shallower CreateDir before a deeper one and a deeper delete
\* before a shallower one
C1_PlanOrdered ==
    Planned =>
        \A i, j \in 1..Len(plan) :
            (i < j /\ Rank(plan[i]) < 3 /\ Rank(plan[j]) < 3) =>
                /\ Rank(plan[i]) <= Rank(plan[j])
                /\ (IsCreateDir(plan[i]) /\ IsCreateDir(plan[j]))
                       => Depth(plan[i].path) <= Depth(plan[j].path)
                /\ (IsDelete(plan[i]) /\ IsDelete(plan[j]))
                       => Depth(plan[i].path) >= Depth(plan[j].path)

\* C2: two calls of diff on the same inputs return the same action sequence
C2_Deterministic == pc = "planned twice" => plan = plan2

BothChanged(p) ==
    /\ IsFile(left_scan[p]) /\ IsFile(right_scan[p])
    /\ ~files_equal(left_scan[p], right_scan[p])
    /\ ChangedOn(left_scan, left_meta, p)
    /\ ChangedOn(right_scan, right_meta, p)

BothModifiedFor(p) ==
    Conflict(p, "BothModified", FileInfo(left_scan[p]), FileInfo(right_scan[p]))

ModifiedVsDeleted(here, hereMeta, there, thereMeta, p) ==
    /\ IsFile(here[p]) /\ ~there[p].present
    /\ ChangedOn(here, hereMeta, p)
    /\ HasPrior(thereMeta, p)

ModDelLeft(p) == ModifiedVsDeleted(left_scan, left_meta, right_scan, right_meta, p)
ModDelRight(p) == ModifiedVsDeleted(right_scan, right_meta, left_scan, left_meta, p)

ModDelConflict(p) ==
    IF left_scan[p].present
    THEN Conflict(p, "ModifiedAndDeleted", FileInfo(left_scan[p]), NoInfo)
    ELSE Conflict(p, "ModifiedAndDeleted", NoInfo, FileInfo(right_scan[p]))

UnchangedVsDeleted(here, hereMeta, there, thereMeta, p) ==
    /\ IsFile(here[p]) /\ ~there[p].present
    /\ HasPrior(hereMeta, p) /\ ~ChangedOn(here, hereMeta, p)
    /\ HasPrior(thereMeta, p) /\ ~HasTombstone(thereMeta, p)

DelLeftCase(p) == UnchangedVsDeleted(left_scan, left_meta, right_scan, right_meta, p)
DelRightCase(p) == UnchangedVsDeleted(right_scan, right_meta, left_scan, left_meta, p)

\* C7 as stated: a file on one side only, unchanged against its own prior
\* FileState, with a prior FileState and no tombstone on the other side, gets
\* a delete on the side where it still exists and nothing else
C7_UnambiguousDelete_AsStated ==
    Planned => \A p \in Paths :
        /\ DelLeftCase(p) => EmitsOnce(p, DeleteLeft(p)) /\ EmitsOnly(p, DeleteLeft(p))
        /\ DelRightCase(p) => EmitsOnce(p, DeleteRight(p)) /\ EmitsOnly(p, DeleteRight(p))

\* C7, amended: the same for a path that no other scanned path equals
\* case-insensitively
C7_UnambiguousDelete ==
    Planned => \A p \in Paths :
        ~CaseCollides(p) =>
            /\ DelLeftCase(p) => EmitsOnce(p, DeleteLeft(p)) /\ EmitsOnly(p, DeleteLeft(p))
            /\ DelRightCase(p) => EmitsOnce(p, DeleteRight(p)) /\ EmitsOnly(p, DeleteRight(p))

C7_Witness ==
    /\ Planned
    /\ \E p \in Paths :
        /\ DelRightCase(p) /\ ~CaseCollides(p)
        /\ right_scan[p].mtime # find_file(right_meta, p).mtime
        /\ EmitsOnce(p, DeleteRight(p))

ExistsVsTombstone(here, there, thereMeta, p) ==
    IsFile(here[p]) /\ ~there[p].present /\ HasTombstone(thereMeta, p)

TombRightCase(p) == ExistsVsTombstone(left_scan, right_scan, right_meta, p)
TombLeftCase(p) == ExistsVsTombstone(right_scan, left_scan, left_meta, p)

ExistsVsDeletedFor(p) ==
    IF left_scan[p].present
    THEN Conflict(p, "ExistsVsDeleted", FileInfo(left_scan[p]), NoInfo)
    ELSE Conflict(p, "ExistsVsDeleted", NoInfo, FileInfo(right_scan[p]))

\* C8 as stated: a file on one side only, with a tombstone for the path in
\* the other side's metadata, gets Conflict ExistsVsDeleted and no copy or
\* delete
C8_ExistsVsDeleted_AsStated ==
    Planned => \A p \in Paths :
        (TombRightCase(p) \/ TombLeftCase(p)) =>
            EmitsOnce(p, ExistsVsDeletedFor(p)) /\ NoCopyFor(p) /\ NoDeleteFor(p)

\* C8, amended: such a path gets no copy and no delete, and when no other
\* scanned path equals it case-insensitively it gets exactly one action, the
\* Conflict ExistsVsDeleted
C8_ExistsVsDeleted ==
    Planned => \A p \in Paths :
        (TombRightCase(p) \/ TombLeftCase(p)) =>
            /\ NoCopyFor(p) /\ NoDeleteFor(p)
            /\ ~CaseCollides(p) =>
                   EmitsOnce(p, ExistsVsDeletedFor(p)) /\ EmitsOnly(p, ExistsVsDeletedFor(p))

C8_Witness ==
    /\ Planned
    /\ \E p \in Paths :
        /\ TombRightCase(p) /\ ~CaseCollides(p)
        /\ HasPrior(left_meta, p)
        /\ EmitsOnce(p, ExistsVsDeletedFor(p))

FirstSight(here, there, thereMeta, p) ==
    /\ IsFile(here[p]) /\ ~there[p].present
    /\ ~HasPrior(thereMeta, p) /\ ~HasTombstone(thereMeta, p)

NewLeft(p) == FirstSight(left_scan, right_scan, right_meta, p)
NewRight(p) == FirstSight(right_scan, left_scan, left_meta, p)

\* C9 as stated: a file on one side only, with neither a prior FileState nor
\* a tombstone on the other side, gets a copy towards the other side with
\* the scanned size of the file
C9_FirstSight_AsStated ==
    Planned => \A p \in Paths :
        /\ NewLeft(p) => EmitsOnce(p, CopyToRight(p, left_scan[p].size))
        /\ NewRight(p) => EmitsOnce(p, CopyToLeft(p, right_scan[p].size))

\* C9, amended: the same for a path that no other scanned path equals
\* case-insensitively; the copy is the only action of the path
C9_FirstSight ==
    Planned => \A p \in Paths :
        ~CaseCollides(p) =>
            /\ NewLeft(p) => /\ EmitsOnce(p, CopyToRight(p, left_scan[p].size))
                             /\ EmitsOnly(p, CopyToRight(p, left_scan[p].size))
            /\ NewRight(p) => /\ EmitsOnce(p, CopyToLeft(p, right_scan[p].size))
                              /\ EmitsOnly(p, CopyToLeft(p, right_scan[p].size))

C9_Witness ==
    /\ Planned
    /\ \E p \in Paths :
        /\ NewRight(p) /\ ~CaseCollides(p)
        /\ right_scan[p].size = MaxSize
        /\ EmitsOnce(p, CopyToLeft(p, MaxSize))

OneChanged(hereScan, hereMeta, thereScan, thereMeta, p) ==
    /\ IsFile(left_scan[p]) /\ IsFile(right_scan[p])
    /\ ~files_equal(left_scan[p], right_scan[p])
    /\ ChangedOn(hereScan, hereMeta, p)
    /\ ~ChangedOn(thereScan, thereMeta, p)

OnlyLeftChanged(p) == OneChanged(left_scan, left_meta, right_scan, right_meta, p)
OnlyRightChanged(p) == OneChanged(right_scan, right_meta, left_scan, left_meta, p)

Scanned(p) == left_scan[p].present \/ right_scan[p].present

IsCaseConflict(a) == a.type = "Conflict" /\ a.reason = "CaseConflict"

\* C11: every scanned path that another scanned path, of the same side or of
\* the other, equals case-insensitively but not exactly gets exactly one
\* action, a Conflict with reason CaseConflict
C11_CaseConflict ==
    Planned => \A p \in Paths :
        (Scanned(p) /\ CaseCollides(p)) =>
            /\ Cardinality(ActionsFor(p)) = 1
            /\ \A i \in ActionsFor(p) : IsCaseConflict(plan[i])

\* a file on both sides with equal sizes, mtimes at most 2 seconds apart and
\* equal hashes whenever both are present
WithinTolerance(p) ==
    /\ IsFile(left_scan[p]) /\ IsFile(right_scan[p])
    /\ left_scan[p].size = right_scan[p].size
    /\ Abs(left_scan[p].mtime - right_scan[p].mtime) <= FAT32_TOLERANCE_SECS * 1000
    /\ (left_scan[p].hash # NoHash /\ right_scan[p].hash # NoHash) =>
           left_scan[p].hash = right_scan[p].hash

IsSkip(a) == a.type = "Skip"

\* C12 as stated: a path within the tolerance gets a Skip and no copy,
\* whatever the two metadata hold
C12_Fat32Tolerance_AsStated ==
    Planned => \A p \in Paths :
        WithinTolerance(p) =>
            /\ \E i \in ActionsFor(p) : IsSkip(plan[i])
            /\ NoCopyFor(p)

\* C12, amended: a path within the tolerance never gets a copy, whatever the
\* two metadata hold; unless another scanned path equals it
\* case-insensitively, its one action is the Skip of identical files
C12_Fat32Tolerance ==
    Planned => \A p \in Paths :
        WithinTolerance(p) =>
            /\ NoCopyFor(p)
            /\ ~CaseCollides(p) =>
                   /\ Cardinality(ActionsFor(p)) = 1
                   /\ EmitsOnly(p, Skip(p, "Files are identical"))

C12_Witness ==
    /\ Planned
    /\ \E p \in Paths :
        /\ WithinTolerance(p) /\ ~CaseCollides(p)
        /\ left_scan[p].mtime # right_scan[p].mtime
        /\ left_scan[p].hash # NoHash /\ right_scan[p].hash # NoHash
        /\ HasPrior(left_meta, p) /\ ChangedOn(left_scan, left_meta, p)
        /\ EmitsOnly(p, Skip(p, "Files are identical"))

-----------------------------------------------------------------------------
(* Properties of Executor::execute *)

\* the action the loop of execute is about to carry out
NextAction == call.sorted[call.index + 1]

Stepping == call.some /\ ~call.returned /\ call.index < Len(call.sorted) /\ call'.index = call.index + 1

SourceTree(a) == IF a.type = "CopyToRight" THEN left_tree ELSE right_tree

SnapshotsOf(p) == {sn \in call.snapshots : sn.path = p}

\* the source is gone, or its size is not the snapshot's, or its mtime is
\* more than 2 seconds from the snapshot's
ChangedSinceSnapshot(entry, sn) ==
    \/ ~entry.present
    \/ entry.size # sn.size
    \/ Abs(entry.mtime - sn.mtime) > FAT32_TOLERANCE_SECS * 1000

DestinationKept(a) ==
    IF a.type = "CopyToRight"
        THEN right_tree' = right_tree /\ right_rahzom' = right_rahzom
    ELSE left_tree' = left_tree /\ left_rahzom' = left_rahzom

\* C13: a copy whose source has a snapshot and, at copy time, is gone or
\* differs from the snapshot in size or by more than 2 seconds in mtime is
\* recorded in skipped with reason "File changed during sync", not in
\* completed, and leaves the destination as it was
C13_SnapshotGuard ==
    [][(Stepping /\ IsCopy(NextAction)) =>
          \A sn \in SnapshotsOf(NextAction.path) :
              ChangedSinceSnapshot(SourceTree(NextAction)[NextAction.path], sn) =>
                  /\ call'.result.skipped =
                         Append(call.result.skipped,
                                [action |-> NextAction, reason |-> "File changed during sync"])
                  /\ call'.result.completed = call.result.completed
                  /\ DestinationKept(NextAction)]_vars

\* the on_file_complete calls so far: the actions carried out, in order
Done == SelectSeq(progress, LAMBDA c : c.callback = "on_file_complete")

Seen == SelectSeq(progress, LAMBDA c : c.callback = "on_progress")

\* x may be carried out before y
InOrder(x, y) ==
    \/ Rank(x) < Rank(y)
    \/ /\ Rank(x) = Rank(y)
       /\ IsCreateDir(x) => Depth(x.path) <= Depth(y.path)
       /\ IsCopy(x) => Depth(x.path) <= Depth(y.path)
       /\ IsDelete(x) => Depth(x.path) >= Depth(y.path)

\* every action of the input has been carried out once
AllDoneOnce ==
    /\ Len(Done) = Len(call.actions)
    /\ \A i \in 1..Len(call.actions) :
          Cardinality({k \in 1..Len(Done) : /\ Done[k].type = call.actions[i].type
                                            /\ Done[k].path = call.actions[i].path}) = 1

\* C14: whatever the order of the input, the actions are carried out
\* CreateDirs first (shallower first), then copies (by depth), then deletes
\* (deeper first), then Skip and Conflict, all of them by the time execute
\* returns, and on_progress is called in that order with the running count
C14_ExecutorOrder ==
    call.some =>
        /\ \A i, j \in 1..Len(Done) : i < j => InOrder(Done[i], Done[j])
        /\ Len(Seen) = Len(Done)
        /\ \A k \in 1..Len(Seen) : /\ Seen[k].current = k
                                   /\ Seen[k].total = Len(call.actions)
                                   /\ Seen[k].path = Done[k].path
        /\ call.returned => AllDoneOnce

\* the input [delete a, delete a/b] has been carried out as a/b, then a
C14_Witness ==
    /\ call.some /\ call.returned
    /\ Len(call.actions) = 2
    /\ IsDelete(call.actions[1]) /\ Depth(call.actions[1].path) = 1
    /\ IsDelete(call.actions[2]) /\ Depth(call.actions[2].path) = 2
    /\ Len(Done) = 2
    /\ IsDelete(Done[1]) /\ Depth(Done[1].path) = 2
    /\ IsDelete(Done[2]) /\ Depth(Done[2].path) = 1

DestTreeAfter(a) == IF a.type = "CopyToRight" THEN right_tree' ELSE left_tree'

\* C15: a copy that is recorded in completed leaves a destination of the
\* declared size whose mtime is within 2 seconds of the mtime the source had
\* when it was copied
C15_CopyPreserves ==
    [][(Stepping /\ IsCopy(NextAction) /\ Len(call'.result.completed) > Len(call.result.completed)) =>
          /\ DestTreeAfter(NextAction)[NextAction.path].size = NextAction.size
          /\ Abs(DestTreeAfter(NextAction)[NextAction.path].mtime
                 - SourceTree(NextAction)[NextAction.path].mtime) <= FAT32_TOLERANCE_SECS * 1000]_vars

\* the on_file_complete calls that reported a failure
Failures == SelectSeq(Done, LAMBDA c : ~c.success)

\* C19: execute carries out the actions one after the other whatever their
\* outcomes; each failure is recorded in failed, in order, with a kind of
\* SyncErrorKind; and execute returns only when every action of the input
\* has been carried out exactly once
C19_NoAbort ==
    call.some =>
        /\ Len(Done) = call.index
        /\ Len(call.result.failed) = Len(Failures)
        /\ \A k \in 1..Len(Failures) :
              /\ call.result.failed[k].action.type = Failures[k].type
              /\ call.result.failed[k].action.path = Failures[k].path
              /\ call.result.failed[k].kind \in SyncErrorKind
        /\ call.returned => AllDoneOnce

\* the first action has failed, the one after it has completed, and
\* execute has returned
C19_Witness ==
    /\ call.some /\ call.returned
    /\ Len(call.actions) = 2
    /\ Len(call.result.failed) = 1
    /\ call.result.failed[1].kind = "NotFound"
    /\ ~Done[1].success
    /\ Done[2].success
    /\ Len(call.result.completed) = 1

InList(a, list) == Cardinality({k \in 1..Len(list) : list[k].action = a})

\* C20: when execute returns, every action of the input is in exactly one
\* of completed, failed and skipped, so the three lengths add up to the
\* length of the input
C20_OutcomeAccounting ==
    (call.some /\ call.returned) =>
        /\ \A i \in 1..Len(call.actions) :
              InList(call.actions[i], call.result.completed)
                + InList(call.actions[i], call.result.failed)
                + InList(call.actions[i], call.result.skipped) = 1
        /\ Len(call.result.completed) + Len(call.result.failed) + Len(call.result.skipped)
              = Len(call.actions)

\* the backups of the files named filename in a .rahzom/_backup
BackupsOf(dot, filename) == {b \in dot.backup : b.name = filename}

CopiedPath == progress'[Len(progress')].path

\* the backups of one basename in before that are among its n newest
NewestOf(before, filename, n) ==
    {b \in BackupsOf([backup |-> before], filename) :
        Cardinality({c \in BackupsOf([backup |-> before], filename) : c.stamp > b.stamp}) < n}

\* C34: the rotation that follows the backup of basename B removes no backup
\* of another basename, "B.x" included, and none of the backup_versions
\* newest backups of B, however many backups of other basenames there are
C34_RotationFrame ==
    [][(progress' # progress /\ progress'[Len(progress')].success) =>
          LET B == file_name(CopiedPath)
              made == [name |-> B, stamp |-> now', size |-> right_tree[CopiedPath].size]
              before == {b \in right_rahzom.backup : b.name # B \/ b.stamp # now'} \cup {made}
          IN /\ \A b \in before : b.name # B => b \in right_rahzom'.backup
             /\ NewestOf(before, B, backup_versions) \subseteq right_rahzom'.backup]_vars

\* the .rahzom of the root an action writes to, before and after the step
DestDot(a) == IF WritesLeft(a) THEN left_rahzom ELSE right_rahzom
DestDotAfter(a) == IF WritesLeft(a) THEN left_rahzom' ELSE right_rahzom'
OtherDotKept(a) == IF WritesLeft(a) THEN right_rahzom' = right_rahzom ELSE left_rahzom' = left_rahzom

\* the step carries out a copy onto a destination that is there, and the
\* snapshot guard lets it pass
Overwrites ==
    /\ Stepping
    /\ IsCopy(NextAction)
    /\ backup_enabled
    /\ (IF WritesLeft(NextAction) THEN left_tree ELSE right_tree)[NextAction.path].present
    /\ call'.result.skipped = call.result.skipped

OldDest == (IF WritesLeft(NextAction) THEN left_tree ELSE right_tree)[NextAction.path]

\* C30: a copy onto an existing destination writes a backup of the old
\* content under .rahzom/_backup of the destination root before it opens the
\* destination: the backup is there whatever becomes of the copy; and when
\* the backup cannot be made the action is recorded in failed and the
\* destination and its .rahzom are as they were
C30_BackupBeforeOverwrite ==
    [][Overwrites =>
          IF OldDest.is_dir
             THEN /\ call'.result.failed = Append(call.result.failed,
                                                  [action |-> NextAction,
                                                   kind |-> call'.result.failed[Len(call'.result.failed)].kind])
                  /\ call'.result.completed = call.result.completed
                  /\ DestinationKept(NextAction)
          ELSE /\ [name |-> file_name(NextAction.path), stamp |-> now, size |-> OldDest.size]
                      \in DestDotAfter(NextAction).backup
               /\ OtherDotKept(NextAction)]_vars

\* a copy has replaced the content of right a/b, and the backup of the
\* right root holds the old content
C30_Witness ==
    /\ \E i \in 1..Len(call.result.completed) :
          call.result.completed[i].action = CopyToRight(<<"a", "b">>, 1)
    /\ right_tree[<<"a", "b">>].size = 1
    /\ \E b \in right_rahzom.backup : b.name = "b" /\ b.size = 0

-----------------------------------------------------------------------------
(* Properties of the metadata store *)

\* C4: no path is both in files and in deleted; upsert_file leaves the path
\* with a FileState and without a tombstone, mark_deleted leaves it with a
\* tombstone and without a FileState
C4_Exclusive ==
    /\ \A p \in Paths : ~(HasPrior(store, p) /\ HasTombstone(store, p))
    /\ last_call.op = "upsert_file" =>
           HasPrior(store, last_call.path) /\ ~HasTombstone(store, last_call.path)
    /\ last_call.op = "mark_deleted" =>
           HasTombstone(store, last_call.path) /\ ~HasPrior(store, last_call.path)

C4_Witness ==
    /\ last_call.op = "upsert_file"
    /\ HasTombstone(store_before, last_call.path)
    /\ Len(store.deleted) > 0
    /\ Len(store.files) > 1

Loaded == last_call.op = "load_with_retention"

\* the start of the retention period that ends at the time of loading
Cutoff == now - retention * MsPerDay

\* C17: the metadata that load_with_retention returns holds no tombstone
\* deleted before the retention period and every tombstone of state.json
\* deleted within it
C17_TombstoneRetention ==
    Loaded =>
        /\ \A i \in 1..Len(store.deleted) : ~(store.deleted[i].deleted_at < Cutoff)
        /\ \A i \in 1..Len(store_before.deleted) :
              store_before.deleted[i].deleted_at > Cutoff =>
                  \E k \in 1..Len(store.deleted) : store.deleted[k] = store_before.deleted[i]

C17_Witness ==
    /\ Loaded
    /\ retention = 1
    /\ Len(store_before.deleted) = 2
    /\ store_before.deleted[1].deleted_at < Cutoff
    /\ store_before.deleted[2].deleted_at > Cutoff
    /\ store.deleted = <<store_before.deleted[2]>>

-----------------------------------------------------------------------------
(* Properties of the scan *)

SymlinkReason == "Symlink (not supported)"

SkippedAs(p, reason) == [path |-> p, reason |-> reason] \in scanned.skipped

\* C18 as stated: no symbolic link is in entries, and every symbolic link
\* of the tree is in skipped with the symlink reason, whatever the patterns
C18_SymlinkExclusion_AsStated ==
    scanned.some => \A p \in links :
        /\ ~scanned.entries[p].present
        /\ SkippedAs(p, SymlinkReason)

\* C18, amended: no symbolic link is in entries; a symbolic link outside
\* .rahzom is in skipped, with the symlink reason if no exclusion pattern
\* excludes it and with the reason of the exclusion otherwise; a symbolic
\* link inside .rahzom is not recorded
C18_SymlinkExclusion ==
    scanned.some => \A p \in links :
        /\ ~scanned.entries[p].present
        /\ (~should_skip(p) /\ ~is_excluded(exclusions, p, left_tree[p].is_dir)) =>
               /\ SkippedAs(p, SymlinkReason)
               /\ ~SkippedAs(p, "Excluded by pattern")
        /\ (~should_skip(p) /\ is_excluded(exclusions, p, left_tree[p].is_dir)) =>
               /\ SkippedAs(p, "Excluded by pattern")
               /\ ~SkippedAs(p, SymlinkReason)
        /\ should_skip(p) => \A e \in scanned.skipped : e.path # p

\* a scan with patterns in use that meets a symbolic link the patterns do
\* not exclude, one they exclude, and a file that becomes an entry
C18_Witness ==
    /\ scanned.some
    /\ exclusions # {}
    /\ \E p \in links : SkippedAs(p, SymlinkReason)
    /\ \E p \in links : SkippedAs(p, "Excluded by pattern")
    /\ \E p \in ScanPaths : p \notin links /\ scanned.entries[p].present

-----------------------------------------------------------------------------
(* Properties of the sync cycle *)

\* C3: idempotence of a cycle.  After a plan has been executed and the
\* metadata of both sides has been updated from the results and saved, the
\* plan of the next analysis of the trees, which nobody has edited, holds
\* only Skip actions.
C3_CycleIdempotent ==
    (screen = "Preview" /\ cycles.saved >= 1) =>
        \A i \in 1..Len(plan) : plan[i].type = "Skip"

\* C21: when the state.json of a side exists and cannot be opened or parsed,
\* loading fails and run_analyze produces no plan (no preview is shown); only
\* an absent file gives empty metadata
C21_CorruptStateNoPlan ==
    [][(RunAnalyze /\ "corrupt" \in {state_json.left, state_json.right})
          => (screen' # "Preview" /\ plan' = <<>>)]_vars

\* C22: when the .rahzomignore of a side holds an invalid glob pattern,
\* loading the exclusions fails as a whole and run_analyze produces no plan
C22_InvalidGlobNoPlan ==
    [][(RunAnalyze /\ (rahzomignore.left.invalid \/ rahzomignore.right.invalid))
          => (screen' # "Preview" /\ plan' = <<>>)]_vars

\* a step that ends a cycle that was not cancelled
FinishesNotCancelled ==
    /\ screen = "Syncing"
    /\ ~syncing.cancel_requested
    /\ screen' = "SyncComplete"

\* C23: a cycle that finishes as cancelled leaves last_sync, files and deleted
\* of both sides' state.json as they were before the cycle: no step but the
\* one that finishes a cycle that was not cancelled changes either metadata,
\* and that step is the only one that sets last_sync
C23_CancelKeepsMetadata ==
    [][/\ (screen = "Syncing" /\ syncing.cancel_requested /\ screen' = "SyncComplete")
            => UNCHANGED <<left_meta, right_meta>>
       /\ (<<left_meta, right_meta>>' # <<left_meta, right_meta>>) => FinishesNotCancelled
       /\ FinishesNotCancelled => (left_meta'.last_sync = now /\ right_meta'.last_sync = now)]_vars

\* a cancelled cycle has finished after an action of it was carried out, and
\* no last_sync was set
C23_Witness ==
    /\ screen = "SyncComplete"
    /\ cycles.started = 1
    /\ cycles.saved = 0
    /\ sync_complete.completed # <<>>
    /\ left_meta.last_sync = NoTime
    /\ right_meta.last_sync = NoTime

\* C24: within one sync cycle every delete of the plan is executed after
\* every copy of the same plan
C24_DeletesAfterCopies ==
    syncing.some =>
        \A i, j \in 1..Len(syncing.actions) :
            (IsDelete(syncing.actions[i]) /\ IsCopy(syncing.actions[j]) /\ i <= syncing.current_index)
                => j <= syncing.current_index

\* what Executor::execute returns for the action at current_index
CurrentResult ==
    execute(syncing.actions[syncing.current_index + 1], left_tree, right_tree,
            left_rahzom, right_rahzom, syncing.snapshots, now, windows)

\* C25: a failed action is offered for retry only if its kind is FileLocked
\* or DiskFull (is_recoverable); a failure of any other kind is recorded in
\* failed and the cycle moves on to the next action
C25_RetryOnlyRecoverable ==
    [][(ExecuteNextSyncAction /\ CurrentResult.failed # <<>>) =>
          IF is_recoverable(CurrentResult.failed[1].kind)
             THEN dialog' = "FileError" /\ UNCHANGED syncing
          ELSE /\ dialog' = "None"
               /\ syncing'.result.failed = syncing.result.failed \o CurrentResult.failed
               /\ syncing'.current_index = syncing.current_index + 1]_vars

\* what save_sync_metadata owes a completed action in the two SyncMetadata
Recorded(a, lm, rm) ==
    CASE IsCopy(a) -> /\ has_file(lm, a.path) /\ ~find_deleted(lm, a.path)
                      /\ has_file(rm, a.path) /\ ~find_deleted(rm, a.path)
      [] a.type = "DeleteLeft" -> find_deleted(lm, a.path) /\ ~has_file(lm, a.path)
      [] a.type = "DeleteRight" -> find_deleted(rm, a.path) /\ ~has_file(rm, a.path)
      [] OTHER -> TRUE

\* the tree an action writes to
DestTree(a) == IF WritesLeft(a) THEN left_tree ELSE right_tree

ScanOfSource(a) == IF WritesLeft(a) THEN right_scan ELSE left_scan

\* the source of the copy has another size than it had in the scan, or is gone
SourceChanged(a) ==
    /\ IsCopy(a)
    /\ ScanOfSource(a)[a.path].present
    /\ ~ScanOfSource(a)[a.path].is_dir
    /\ \/ ~SourceTree(a)[a.path].present
       \/ SourceTree(a)[a.path].size # ScanOfSource(a)[a.path].size

\* C28: in a sync cycle of the application a copy whose source file changed
\* size or was removed after the scan is skipped with the reason "File
\* changed during sync" and is not copied
C28_AppSnapshotGuard ==
    [][(ExecuteNextSyncAction /\ SourceChanged(syncing.actions[syncing.current_index + 1])) =>
          /\ syncing'.result.skipped =
                 Append(syncing.result.skipped,
                        [action |-> syncing.actions[syncing.current_index + 1],
                         reason |-> "File changed during sync"])
          /\ UNCHANGED <<left_tree, right_tree>>]_vars

\* the plan of the running cycle holds a Skip or a Conflict for the path
Unresolved(p) == \E i \in 1..Len(plan) : plan[i].path = p /\ plan[i].type \in {"Skip", "Conflict"}

\* what a SyncMetadata holds for a path
RecordOf(meta, p) == <<has_file(meta, p), find_file(meta, p), find_deleted(meta, p)>>

\* the entries of a .rahzom that were made for a path
DotOf(dot, p) ==
    <<{e \in dot.backup : e.name = file_name(p)}, {e \in dot.trash : e.name = file_name(p)}>>

\* what there is at a path; the mtime of a directory moves with the entries
\* other actions add below it and is left out
Content(e) == IF e.present /\ e.is_dir THEN [e EXCEPT !.mtime = 0] ELSE e

ExecutesBelow(p) ==
    /\ ExecuteNextSyncAction
    /\ IsUnder(syncing.actions[syncing.current_index + 1].path, p)

\* the tree has p as it had it, or p was not there and is a directory now
KeptOrMadeDir(before, after, p) ==
    \/ Content(after[p]) = Content(before[p])
    \/ ~before[p].present /\ after[p].present /\ after[p].is_dir

C29_CancelBetweenActions ==
    [][(syncing.some /\ syncing.cancel_requested) =>
          /\ UNCHANGED <<left_tree, right_tree, left_rahzom, right_rahzom>>
          /\ \/ /\ syncing'.some
                /\ syncing'.cancel_requested
                /\ syncing'.result = syncing.result
                /\ syncing'.current_index = syncing.current_index
                /\ screen' = "Syncing"
             \/ /\ ~syncing'.some
                /\ screen' = "SyncComplete"
                /\ dialog = "None"
                /\ sync_complete' = [some |-> TRUE, completed |-> syncing.result.completed,
                                     failed |-> syncing.result.failed,
                                     skipped |-> syncing.result.skipped]]_vars

\* cancel was requested after an action was carried out and before the last
\* action of the plan
C29_Witness ==
    /\ screen = "Syncing"
    /\ syncing.cancel_requested
    /\ syncing.current_index > 0
    /\ syncing.current_index < Len(syncing.actions)

\* a copy or a delete of path p is among the completed actions of the cycle
CompletedFor(completed, p) ==
    \E i \in 1..Len(completed) :
        /\ IsCopy(completed[i].action) \/ IsDelete(completed[i].action)
        /\ completed[i].action.path = p

\* the FileState of p in before is in after as it was, unless a copy or a
\* delete of p completed; and if it is not in after, a tombstone of p is
SavedFrame(before, after, completed, p) ==
    has_file(before, p) =>
        /\ ~CompletedFor(completed, p) =>
              (has_file(after, p) /\ find_file(after, p) = find_file(before, p))
        /\ ~has_file(after, p) => find_deleted(after, p)

\* C31: the save at the end of a cycle that was not cancelled keeps, on
\* both sides, the FileState of every path that had no completed copy or
\* delete in the cycle as it was, and removes a FileState only when it puts a
\* tombstone for the same path in its place
C31_SaveFrame ==
    [][FinishesNotCancelled =>
          \A p \in Paths :
              /\ SavedFrame(left_meta, left_meta', syncing.result.completed, p)
              /\ SavedFrame(right_meta, right_meta', syncing.result.completed, p)]_vars

\* a saved cycle that completed a copy of one path and kept the FileState of
\* another path, which had no completed action, on both sides
C31_Witness ==
    /\ screen = "SyncComplete"
    /\ cycles.saved = 1
    /\ \E p, q \in Paths :
          /\ p # q
          /\ has_file(left_meta, p) /\ has_file(right_meta, p)
          /\ ~CompletedFor(sync_complete.completed, p)
          /\ \E i \in 1..Len(sync_complete.completed) :
                /\ IsCopy(sync_complete.completed[i].action)
                /\ sync_complete.completed[i].action.path = q
          /\ has_file(left_meta, q)

NoTombstone == [path |-> <<>>, size |-> 0, mtime |-> 0, hash |-> NoHash, deleted_at |-> 0]

\* the DeletedFile that meta holds for path p
TombstoneOf(meta, p) == FirstWithPath(meta.deleted, p, NoTombstone)

\* the side a delete is recorded on: its SyncMetadata before and after the
\* save, and its scan
DeleteSide(a) ==
    IF a.type = "DeleteLeft"
       THEN [before |-> left_meta, after |-> left_meta', scan |-> left_scan]
    ELSE [before |-> right_meta, after |-> right_meta', scan |-> right_scan]

\* C32: the tombstone that the save records for a completed delete carries
\* the size and the mtime the file was last known with (those of its
\* FileState, or of its scan entry when it had none) and the time of the save
\* as deleted_at
C32_TombstoneLastKnown ==
    [][FinishesNotCancelled =>
          \A i \in 1..Len(syncing.result.completed) :
              LET a == syncing.result.completed[i].action
                  side == DeleteSide(a)
                  d == TombstoneOf(side.after, a.path)
                  known == IF has_file(side.before, a.path)
                              THEN find_file(side.before, a.path)
                           ELSE side.scan[a.path]
              IN IsDelete(a) =>
                    /\ find_deleted(side.after, a.path)
                    /\ d.deleted_at = now
                    /\ d.size = known.size
                    /\ d.mtime = known.mtime]_vars

\* the change-since predicate in the words of the rule: another size, mtimes
\* more than FAT32_TOLERANCE_SECS apart (in milliseconds), or two hashes that
\* differ
ChangedAsStated(current, prev) ==
    \/ current.size # prev.size
    \/ Abs(current.mtime - prev.mtime) > FAT32_TOLERANCE_SECS * 1000
    \/ current.hash # NoHash /\ prev.hash # NoHash /\ current.hash # prev.hash

\* C33: for every scanned file with a recorded FileState that diff has
\* compared, file_changed_since reports a change exactly when the size differs, or the mtime is more than
\* 2 seconds away from the recorded one (2.5 s counts), or both hashes are
\* present and differ
C33_ChangedSince ==
    \A p \in Paths :
        /\ (pc = "planned" /\ IsFile(left_scan[p]) /\ has_file(left_meta, p)) =>
              (file_changed_since(left_scan[p], find_file(left_meta, p))
                  <=> ChangedAsStated(left_scan[p], find_file(left_meta, p)))
        /\ (pc = "planned" /\ IsFile(right_scan[p]) /\ has_file(right_meta, p)) =>
              (file_changed_since(right_scan[p], find_file(right_meta, p))
                  <=> ChangedAsStated(right_scan[p], find_file(right_meta, p)))

\* no two scanned paths differ in case only
NoCaseConflicts == \A p \in Paths : ~(Scanned(p) /\ CaseCollides(p))

MirrorType(type) ==
    CASE type = "CopyToRight" -> "CopyToLeft"
      [] type = "CopyToLeft" -> "CopyToRight"
      [] type = "DeleteRight" -> "DeleteLeft"
      [] type = "DeleteLeft" -> "DeleteRight"
      [] type = "CreateDirRight" -> "CreateDirLeft"
      [] type = "CreateDirLeft" -> "CreateDirRight"
      [] OTHER -> type

\* the action with left and right exchanged
Mirror(a) == [a EXCEPT !.type = MirrorType(a.type), !.left = a.right, !.right = a.left]

\* C35: for scans without case conflicts, diff of the two scans and the two
\* metadata stores exchanged returns, as a set, the mirror image of the plan:
\* every copy, delete and directory creation with its direction reversed,
\* every Conflict with its two infos exchanged, every Skip as it is
C35_MirrorSymmetry ==
    (Planned /\ NoCaseConflicts) =>
        \A mirrored \in diff(right_scan, left_scan, right_meta, left_meta) :
            {mirrored[i] : i \in 1..Len(mirrored)} = {Mirror(plan[i]) : i \in 1..Len(plan)}

\* a plan without case conflicts that holds a delete next to another action,
\* and in which every action but a Skip differs from its mirror image
C35_Witness ==
    /\ Planned
    /\ NoCaseConflicts
    /\ \E i, j \in 1..Len(plan) :
          /\ IsDelete(plan[i])
          /\ i # j
    /\ \A i \in 1..Len(plan) : Mirror(plan[i]) # plan[i] \/ plan[i].type = "Skip"

\* C36: for scans without case conflicts the plan holds exactly one action
\* for every path that is in the left scan or in the right scan, and none for
\* any other path
C36_PlanComplete ==
    (Planned /\ NoCaseConflicts) =>
        \A p \in Paths : Cardinality(ActionsFor(p)) = IF Scanned(p) THEN 1 ELSE 0

\* a plan without case conflicts for a path scanned on both sides, a path
\* scanned on one side only, and a path that is in neither scan
C36_Witness ==
    /\ Planned
    /\ NoCaseConflicts
    /\ Len(plan) = 2
    /\ \E p, q, r \in Paths :
          /\ left_scan[p].present /\ right_scan[p].present
          /\ left_scan[q].present # right_scan[q].present
          /\ ~Scanned(r)

\* C37: the source of every CopyToRight and CopyToLeft of the plan is a
\* regular file in the scan of its source side, and no path that is a
\* directory on one side and a regular file on the other is skipped as
\* identical
C37_CopiesFilesOnly ==
    Planned =>
        \A i \in 1..Len(plan) :
            /\ plan[i].type = "CopyToRight" => IsFile(left_scan[plan[i].path])
            /\ plan[i].type = "CopyToLeft" => IsFile(right_scan[plan[i].path])
            /\ (plan[i].type = "Skip" /\ plan[i].reason = "Files are identical")
                  => left_scan[plan[i].path].is_dir = right_scan[plan[i].path].is_dir

\* C38: after a cycle that was not cancelled, neither SyncMetadata holds a
\* FileState for the path of a completed DeleteLeft or DeleteRight
C38_NoStateAfterDelete ==
    [][FinishesNotCancelled =>
          \A i \in 1..Len(syncing.result.completed) :
              IsDelete(syncing.result.completed[i].action) =>
                  /\ ~has_file(left_meta', syncing.result.completed[i].action.path)
                  /\ ~has_file(right_meta', syncing.result.completed[i].action.path)]_vars

\* the actions of the outcomes accumulated so far, list by list
OutcomeActions ==
    [i \in 1..Len(syncing.result.completed) |-> syncing.result.completed[i].action]
    \o [i \in 1..Len(syncing.result.failed) |-> syncing.result.failed[i].action]
    \o [i \in 1..Len(syncing.result.skipped) |-> syncing.result.skipped[i].action]

\* how often x occurs in the sequence s
Occurrences(s, x) == Cardinality({i \in 1..Len(s) : s[i] = x})

\* C39: while a cycle runs, completed_actions = current_index <=
\* total_actions, the accumulated result holds current_index outcomes, one
\* for each action of the plan already passed and none for any other, and an
\* action that waits in the file-error dialog is the one at current_index,
\* not yet passed
C39_ProgressAccounting ==
    syncing.some =>
        /\ syncing.completed_actions = syncing.current_index
        /\ syncing.current_index <= syncing.total_actions
        /\ syncing.total_actions = Len(syncing.actions)
        /\ Len(OutcomeActions) = syncing.current_index
        /\ \A a \in {syncing.actions[k] : k \in 1..Len(syncing.actions)} :
              Occurrences(OutcomeActions, a)
                  = Occurrences(SubSeq(syncing.actions, 1, syncing.current_index), a)
        /\ dialog = "FileError" => syncing.current_index < Len(syncing.actions)

\* an action waits in the file-error dialog after another action of the
\* cycle has been passed
C39_Witness ==
    /\ syncing.some
    /\ dialog = "FileError"
    /\ syncing.current_index >= 1
    /\ Len(OutcomeActions) = syncing.current_index

\* C40: a cycle that has started reaches SyncComplete, unless the file-error
\* dialog keeps coming back for ever (an action that fails with a kind of
\* that dialog on every retry); and no step taken while a dialog is open
\* changes a tree or a .rahzom or adds a completed or failed outcome
C40_CycleTerminates ==
    /\ [][dialog # "None" =>
            /\ UNCHANGED <<left_tree, right_tree, left_rahzom, right_rahzom>>
            /\ syncing'.some => /\ syncing'.result.completed = syncing.result.completed
                                /\ syncing'.result.failed = syncing.result.failed]_vars
    /\ (<>[](dialog # "FileError")) => ((screen = "Syncing") ~> (screen = "SyncComplete"))

\* a cycle has reached SyncComplete after its file-error dialog was answered
\* with a skip, and after another action of it was completed
C40_Witness ==
    /\ screen = "SyncComplete"
    /\ sync_complete.completed # <<>>
    /\ \E i \in 1..Len(sync_complete.skipped) : sync_complete.skipped[i].reason = "Skipped by user"

====
